---- MODULE Spec2Model ----
(***************************************************************************)
(* Model of scripts/generate_slide.py: the single-request pipeline         *)
(* generate_slide (skip-if-exists, credential check, request composition,  *)
(* bounded retry loop, download, quality check and refinement loop), the   *)
(* helper _quality_check with its reply parsing, locator extraction, the   *)
(* reference-sheet builder and _sanitize_label; of                         *)
(* scripts/generate_reference.py: generate_reference and its sheet         *)
(* builder; of scripts/generate_deck.py: run_deck and its worker pool.     *)
(*                                                                         *)
(* Each entry point has its own specification; the state of the entry      *)
(* points that are not running stays idle.                                 *)
(*                                                                         *)
(* Strings of the program are sequences of one-character strings, so that  *)
(* strip, upper, startswith and slicing are computed as Python does.       *)
(***************************************************************************)
EXTENDS Integers, Sequences, FiniteSets, TLC

VARIABLES
    \* ---- generate_slide: arguments and environment -------------------
    retries,            \* retries argument
    max_refine,         \* max_refine argument
    quality_check,      \* quality_check argument
    api_key,            \* TRUE iff api_key argument or ANTHROPIC_AUTH_TOKEN is set
    reference_images,   \* sequence of path kinds; <<>> is None or an empty list
    pillow,             \* TRUE iff PIL could be imported (Image is not None)
    file,               \* the file at the output path: NoFile or a payload
    \* ---- generate_slide: locals and control ----------------------------
    pc,                 \* position in generate_slide
    attempt,            \* loop variable of the retry loop
    qc_round,           \* loop variable of the refine loop
    msg_content,        \* content of the request body
    content_parts,      \* content of the last request body of _refine_image
    passed,             \* verdict returned by the last _quality_check
    reason,             \* reason returned by the last _quality_check
    refined,            \* value returned by the last _refine_image
    result,             \* "none" while running, then "True", "False" or "raised"
    \* ---- observation of the environment --------------------------------
    file0,              \* the file at the output path when the call began
    genPosts,           \* generation requests sent (line 407)
    bodies,             \* the distinct request bodies sent on line 407
    qcPosts,            \* evaluation requests sent (line 265)
    refinePosts,        \* refinement requests sent (line 321)
    downloads,          \* image downloads issued (lines 430 and 340)
    evals,              \* evaluation requests since the last initial download
    refines,            \* refinement requests since the last initial download
    lastGood,           \* payload of the most recent successful download
    lastSleep,          \* duration of the most recent time.sleep
    \* ---- _quality_check called on its own ------------------------------
    qcpc,               \* position in _quality_check
    qcImage,            \* TRUE iff the file at image_path can be decoded
    qcReply,            \* what requests.post did
    qcVerdict,          \* the (passed, reason) pair returned
    \* ---- the other entry points, one record of locals each -----------
    refcall,            \* a call of generate_reference.generate_reference
    dltest,             \* one download response met by one of the three size tests
    extraction,         \* the two regular expressions applied to one reply text
    sheet,              \* a call of one of the two reference-sheet builders
    label,              \* a call of _sanitize_label
    deck,               \* a call of generate_deck.run_deck
    failure,            \* the failed attempts of a generate_slide call, when observed
    race,               \* two concurrent calls of generate_slide on one output path
    project             \* a project directory with its settings.json and image files

vars == <<retries, max_refine, quality_check, api_key, reference_images, pillow, file,
          pc, attempt, qc_round, msg_content, content_parts, passed, reason, refined,
          result, file0, genPosts, bodies, qcPosts, refinePosts, downloads, evals, refines,
          lastGood, lastSleep, qcpc, qcImage, qcReply, qcVerdict,
          refcall, dltest, extraction, sheet, label, deck, failure, race,
          project>>

slideVars == <<retries, max_refine, quality_check, api_key, reference_images, pillow,
               file, pc, attempt, qc_round, msg_content, content_parts, passed, reason,
               refined, result, file0, genPosts, bodies, qcPosts, refinePosts,
               downloads, evals, refines, lastGood, lastSleep, failure>>

qcVars == <<qcpc, qcImage, qcReply, qcVerdict>>

\* What each entry point leaves alone: the state of all the others
notSlide == <<qcVars, refcall, dltest, extraction, sheet, label, deck, race, project>>
notQC == <<slideVars, refcall, dltest, extraction, sheet, label, deck, race, project>>
notRef == <<slideVars, qcVars, dltest, extraction, sheet, label, deck, race, project>>
notDownload == <<slideVars, qcVars, refcall, extraction, sheet, label, deck, race, project>>
notExtraction == <<slideVars, qcVars, refcall, dltest, sheet, label, deck, race, project>>
notSheet == <<slideVars, qcVars, refcall, dltest, extraction, label, deck, race, project>>
notLabel == <<slideVars, qcVars, refcall, dltest, extraction, sheet, deck, race, project>>
notDeck == <<slideVars, qcVars, refcall, dltest, extraction, sheet, label, race, project>>
notRace == <<slideVars, qcVars, refcall, dltest, extraction, sheet, label, deck, project>>
notProject == <<slideVars, qcVars, refcall, dltest, extraction, sheet, label, deck, race>>

(***************************************************************************)
(* Bounds of the model and constants of the program.                       *)
(***************************************************************************)
MaxRetries == 2
MaxRefine == 2
MaxRefs == 1

MinValidSize == 1000
SleepTransport == 5
SleepOther == 3
StatusOk == 200
StatusError == 500

None == "None"
NoFile == [exists |-> FALSE, id |-> 0, size |-> 0, image |-> FALSE]

(***************************************************************************)
(* Python string operations on sequences of characters.                    *)
(***************************************************************************)
Lower == <<"a", "b", "c", "d", "e", "f", "g", "h", "i", "j", "k", "l", "m",
           "n", "o", "p", "q", "r", "s", "t", "u", "v", "w", "x", "y", "z">>
Capital == <<"A", "B", "C", "D", "E", "F", "G", "H", "I", "J", "K", "L", "M",
             "N", "O", "P", "Q", "R", "S", "T", "U", "V", "W", "X", "Y", "Z">>

\* str.upper() on one ASCII character
UpperChar(c) ==
    IF \E i \in 1..26 : Lower[i] = c
    THEN Capital[CHOOSE i \in 1..26 : Lower[i] = c]
    ELSE c

\* str.upper()
Upper(s) == [i \in 1..Len(s) |-> UpperChar(s[i])]

\* str.startswith(p)
StartsWith(s, p) == Len(s) >= Len(p) /\ SubSeq(s, 1, Len(p)) = p

\* s[n:] for n >= 0
SliceFrom(s, n) == SubSeq(s, n + 1, Len(s))

RECURSIVE LStripChars(_, _)
LStripChars(s, cs) ==
    IF s # <<>> /\ Head(s) \in cs THEN LStripChars(Tail(s), cs) ELSE s

RECURSIVE RStripChars(_, _)
RStripChars(s, cs) ==
    IF s # <<>> /\ s[Len(s)] \in cs
    THEN RStripChars(SubSeq(s, 1, Len(s) - 1), cs)
    ELSE s

\* str.strip(chars)
StripChars(s, cs) == RStripChars(LStripChars(s, cs), cs)

\* The characters of str.isspace() and of the regex class \s that lie outside
\* ASCII, by code point
UnicodeSpaces ==
    {"U+0085", "U+00A0", "U+1680", "U+2000", "U+2001", "U+2002", "U+2003",
     "U+2004", "U+2005", "U+2006", "U+2007", "U+2008", "U+2009", "U+200A",
     "U+2028", "U+2029", "U+202F", "U+205F", "U+3000"}

\* The ASCII control characters of that class that have no escape in a
\* string: vertical tab and the four separators 0x1c-0x1f
ControlSpaces == {"U+000B", "U+001C", "U+001D", "U+001E", "U+001F"}

\* What str.strip() removes and what \s matches
Whitespace == {" ", "\n", "\t", "\r", "\f"} \cup ControlSpaces \cup UnicodeSpaces

\* str.strip()
Strip(s) == StripChars(s, Whitespace)


(***************************************************************************)
(* _quality_check (lines 230-284).                                         *)
(***************************************************************************)
PASS == <<"P", "A", "S", "S">>
FAIL == <<"F", "A", "I", "L">>
CheckUnavailable == <<"c", "h", "e", "c", "k", " ", "u", "n", "a", "v", "a", "i", "l", "a", "b", "l", "e">>
EmptyText == <<>>

\* str(e) of the exceptions the evaluation request can end in
MsgTimeout == <<"t", "i", "m", "e", "d", " ", "o", "u", "t">>
MsgConnection == <<"c", "o", "n", "n", "e", "c", "t", "i", "o", "n", " ", "r", "e", "f", "u", "s", "e", "d">>
\* json.loads of a body that is no JSON document: "Expecting value: line 1 column 1 (char 0)"
MsgNotJson ==
    <<"E", "x", "p", "e", "c", "t", "i", "n", "g", " ", "v", "a", "l", "u", "e", ":", " ", "l", "i", "n", "e", " ", "1", " ", "c", "o", "l", "u", "m", "n", " ", "1", " ", "(", "c", "h", "a", "r", " ", "0", ")">>
MsgIndexError == <<"l", "i", "s", "t", " ", "i", "n", "d", "e", "x", " ", "o", "u", "t", " ", "o", "f", " ", "r", "a", "n", "g", "e">>
MsgAttributeError ==
    <<"'", "N", "o", "n", "e", "T", "y", "p", "e", "'", " ", "o", "b", "j", "e", "c", "t", " ", "h", "a", "s",
      " ", "n", "o", " ", "a", "t", "t", "r", "i", "b", "u", "t", "e", " ", "'", "s", "t", "r", "i", "p", "'">>

\* What requests.post can do: raise requests.exceptions.Timeout, raise another
\* exception, or return a response with a status and a body.
Raised(kind, msg) ==
    [kind |-> kind, status |-> 0, shape |-> "none", text |-> EmptyText, msg |-> msg]
Response(status, shape, text) ==
    [kind |-> "response", status |-> status, shape |-> shape, text |-> text,
     msg |-> EmptyText]

\* Lines 270-271: resp = r.json();
\* text = resp.get("choices", [{}])[0].get("message", {}).get("content", "").
\* The shapes of a body: not JSON at all (r.json() raises), no "choices" key,
\* an empty "choices" list (IndexError), a choice without "message", a message
\* without "content", a content of null (AttributeError on .strip()), a text.
BodyShapes == {"not_json", "no_choices", "empty_choices", "no_message",
               "no_content", "null_content", "text"}

ContentOf(r) ==
    CASE r.shape = "not_json"      -> [raised |-> TRUE, msg |-> MsgNotJson, text |-> EmptyText]
      [] r.shape = "empty_choices" -> [raised |-> TRUE, msg |-> MsgIndexError, text |-> EmptyText]
      [] r.shape = "null_content"  -> [raised |-> TRUE, msg |-> MsgAttributeError, text |-> EmptyText]
      [] r.shape = "text"          -> [raised |-> FALSE, msg |-> EmptyText, text |-> r.text]
      [] OTHER                     -> [raised |-> FALSE, msg |-> EmptyText, text |-> EmptyText]

Verdict(ok, why) == [passed |-> ok, reason |-> why]

\* Lines 266-268: a status other than 200
VerdictOnStatusBadReason(status) == Verdict(TRUE, EmptyText)
VerdictOnStatus(status) == Verdict(TRUE, CheckUnavailable)

\* Lines 282-284: except Exception as e: return True, str(e)
VerdictOnExceptionFailClosed(msg) == Verdict(FALSE, msg)
VerdictOnException(msg) == Verdict(TRUE, msg)

\* Lines 272-281: text = text.strip(), then the PASS / FAIL prefix tests
VerdictOnTextCaseSensitive(content) ==
    LET text == Strip(content) IN
    IF StartsWith(text, PASS) THEN Verdict(TRUE, text)
    ELSE IF StartsWith(text, FAIL)
         THEN Verdict(FALSE, StripChars(SliceFrom(text, 5), {":", " "}))
         ELSE Verdict(TRUE, text)
VerdictOnText(content) ==
    LET text == Strip(content) IN
    IF StartsWith(Upper(text), PASS) THEN Verdict(TRUE, text)
    ELSE IF StartsWith(Upper(text), FAIL)
         THEN Verdict(FALSE, StripChars(SliceFrom(text, 5), {":", " "}))
         ELSE Verdict(TRUE, text)

\* Lines 264-284: the verdict of _quality_check for an outcome of requests.post
QualityVerdict(r) ==
    IF r.kind # "response" THEN VerdictOnException(r.msg)
    ELSE IF r.status # StatusOk THEN VerdictOnStatus(r.status)
    ELSE LET c == ContentOf(r) IN
         IF c.raised THEN VerdictOnException(c.msg) ELSE VerdictOnText(c.text)

\* Lines 54-66 (_image_to_base64) as called on line 235 and line 290: it
\* raises when Pillow is missing or cannot decode the file; f is what the
\* path holds.
CanEncode(f) == pillow /\ f.exists /\ f.image

(***************************************************************************)
(* Replies of the judge used to exercise _quality_check.                   *)
(***************************************************************************)
ReplyPrefixes == {<<>>, <<" ">>, <<"\r">>}
ReplyWords == {PASS, <<"p", "a", "s", "s">>, <<"P", "a", "s", "s">>, FAIL, <<"f", "a", "i", "l">>, <<"F", "a", "i", "l">>, <<"O", "K">>, <<>>}
ReplySuffixes == {<<>>, <<":">>, <<":", " ", "x">>, <<" ", "x">>, <<"U", "R", "E">>, <<"e", "d">>, <<"A", "B", "L", "E">>, <<":", "x">>, <<" ", ":", " ", "x", ":", " ">>, <<":", " ", "x", "\r", "\n">>}
ReplyTexts == {p \o w \o s : p \in ReplyPrefixes, w \in ReplyWords, s \in ReplySuffixes}

Exceptions == {Raised("timeout", MsgTimeout), Raised("error", MsgConnection)}

QCOutcomes ==
    Exceptions
    \cup {Response(StatusError, sh, EmptyText) : sh \in {"not_json", "text"}}
    \cup {Response(StatusOk, sh, EmptyText) : sh \in BodyShapes \ {"text"}}
    \cup {Response(StatusOk, "text", t) : t \in ReplyTexts}

InitQC ==
    /\ qcpc = "call"
    /\ qcImage \in BOOLEAN
    /\ qcReply = None
    /\ qcVerdict = None

\* Line 235: data_uri = _image_to_base64(image_path), outside the try block
QCEncode ==
    /\ qcpc = "call"
    /\ qcpc' = IF qcImage THEN "post" ELSE "raised"
    /\ UNCHANGED <<qcImage, qcReply, qcVerdict>>
    /\ UNCHANGED notQC

\* Lines 264-284: the request and the verdict
QCPost ==
    /\ qcpc = "post"
    /\ \E r \in QCOutcomes :
        /\ qcReply' = r
        /\ qcVerdict' = QualityVerdict(r)
    /\ qcpc' = "returned"
    /\ UNCHANGED qcImage
    /\ UNCHANGED notQC


(***************************************************************************)
(* Locator extraction (lines 417-429 and 329-339): re.search with the      *)
(* markdown pattern  !\[.*?\]\((https?://[^\s\)]+)\)  and, when that finds   *)
(* nothing, with  (https?://\S+\.(?:png|jpg|jpeg|webp|gif))  under         *)
(* re.IGNORECASE.                                                          *)
(***************************************************************************)
Http == <<"h", "t", "t", "p">>
ColonSlashes == <<":", "/", "/">>
\* "no match" of re.search (a match is never empty)
NoLocator == <<>>
ImageExtensions == {<<"p", "n", "g">>, <<"j", "p", "g">>, <<"j", "p", "e", "g">>, <<"w", "e", "b", "p">>, <<"g", "i", "f">>}

\* str.lower() on one ASCII character
LowerChar(c) ==
    IF \E i \in 1..26 : Capital[i] = c
    THEN Lower[CHOOSE i \in 1..26 : Capital[i] = c]
    ELSE c
LowerOf(s) == [i \in 1..Len(s) |-> LowerChar(s[i])]

\* text[i .. i+Len(p)-1] = p, letters compared as they are or ignoring case
MatchAt(text, i, p, ignoreCase) ==
    /\ i >= 1
    /\ i + Len(p) - 1 <= Len(text)
    /\ LET part == SubSeq(text, i, i + Len(p) - 1) IN
       IF ignoreCase THEN LowerOf(part) = LowerOf(p) ELSE part = p

\* The positions right after  https?://  matched at position i
AfterScheme(text, i, ignoreCase) ==
    IF ~MatchAt(text, i, Http, ignoreCase) THEN {}
    ELSE {j \in {i + 7, i + 8} :
            /\ (j = i + 8 => MatchAt(text, i + 4, <<"s">>, ignoreCase))
            /\ MatchAt(text, j - 3, ColonSlashes, ignoreCase)}

\* The end of the longest run of characters outside `stop` that starts at u
\* (u - 1 when the run is empty)
RECURSIVE RunEnd(_, _, _)
RunEnd(text, u, stop) ==
    IF u <= Len(text) /\ text[u] \notin stop THEN RunEnd(text, u + 1, stop) ELSE u - 1

\* (https?://[^\s\)]+)\)  matched at position i: the end of group 1, or 0
MarkdownUrlEnd(text, i) ==
    LET ends == {e \in {RunEnd(text, u, Whitespace \cup {")"}) : u \in AfterScheme(text, i, FALSE)} :
                    /\ \E u \in AfterScheme(text, i, FALSE) :
                          e = RunEnd(text, u, Whitespace \cup {")"}) /\ e >= u
                    /\ MatchAt(text, e + 1, <<")">>, FALSE)}
    IN IF ends = {} THEN 0 ELSE CHOOSE e \in ends : \A f \in ends : f <= e

\* re.search(r'!\[.*?\]\((https?://[^\s\)]+)\)', text): group 1 or None.
\* The leftmost start wins; the lazy .*? (which does not cross a newline)
\* then takes the nearest  ](  that is followed by a URL and a  ) .
MarkdownLocator(text) ==
    LET ok(i, j) == /\ MatchAt(text, i, <<"!", "[">>, FALSE)
                    /\ j >= i + 2
                    /\ MatchAt(text, j, <<"]", "(">>, FALSE)
                    /\ \A k \in (i + 2)..(j - 1) : text[k] # "\n"
                    /\ MarkdownUrlEnd(text, j + 2) # 0
        starts == {i \in 1..Len(text) : \E j \in 1..Len(text) : ok(i, j)}
    IN IF starts = {} THEN NoLocator
       ELSE LET i == CHOOSE a \in starts : \A b \in starts : a <= b
                j == CHOOSE a \in {c \in 1..Len(text) : ok(i, c)} :
                        \A b \in {c \in 1..Len(text) : ok(i, c)} : a <= b
            IN SubSeq(text, j + 2, MarkdownUrlEnd(text, j + 2))

\* (https?://\S+\.(?:png|jpg|jpeg|webp|gif))  matched at position i under
\* re.IGNORECASE: the end of the match, or 0.  The greedy \S+ gives the
\* longest match.
BareUrlEnd(text, i) ==
    LET ends == {e \in 1..Len(text) :
                    \E u \in AfterScheme(text, i, TRUE), x \in ImageExtensions :
                        /\ e - Len(x) - 1 >= u
                        /\ e - Len(x) - 1 <= RunEnd(text, u, Whitespace)
                        /\ MatchAt(text, e - Len(x), <<".">>, FALSE)
                        /\ MatchAt(text, e - Len(x) + 1, x, TRUE)}
    IN IF ends = {} THEN 0 ELSE CHOOSE e \in ends : \A f \in ends : f <= e

\* re.search(r'(https?://\S+\.(?:png|jpg|jpeg|webp|gif))', text, re.IGNORECASE)
BareLocator(text) ==
    LET starts == {i \in 1..Len(text) : BareUrlEnd(text, i) # 0}
    IN IF starts = {} THEN NoLocator
       ELSE LET i == CHOOSE a \in starts : \A b \in starts : a <= b
            IN SubSeq(text, i, BareUrlEnd(text, i))

\* Lines 418-429: the markdown pattern first, then the bare URL
ExtractLocatorBareFirst(text) ==
    IF BareLocator(text) # NoLocator THEN BareLocator(text) ELSE MarkdownLocator(text)

ExtractLocator(text) ==
    IF MarkdownLocator(text) # NoLocator THEN MarkdownLocator(text) ELSE BareLocator(text)


(***************************************************************************)
(* generate_slide (lines 352-474).                                         *)
(***************************************************************************)
\* Lengths around the minimum valid size
Sizes == {MinValidSize - 1, MinValidSize, MinValidSize + 1}

\* A file or a downloaded body: a serial number standing for its bytes, its
\* length, and whether Pillow can decode it
Payload(id, size, image) == [exists |-> TRUE, id |-> id, size |-> size, image |-> image]

\* Line 363: os.path.exists(output) and os.path.getsize(output) > 1000
AlreadyGeneratedOffByOne(f) == f.exists /\ f.size > MinValidSize + 1
AlreadyGeneratedNeedsKey(f) == f.exists /\ f.size > MinValidSize /\ api_key
AlreadyGenerated(f) == f.exists /\ f.size > MinValidSize

\* Lines 88-103 of _concatenate_reference_images: a path is "missing" (skipped),
\* "valid", or "corrupt" (Image.open raises)
RefKinds == {"missing", "valid", "corrupt"}
\* Every list of at most MaxRefs paths, and one list that mixes a missing
\* path with an image
MissingThenValid == <<"missing", "valid">>
RefLists == UNION {[1..n -> RefKinds] : n \in 0..MaxRefs} \cup {MissingThenValid}

\* Lines 83-95: the call raises when Pillow is missing or an existing path
\* cannot be opened as an image
ConcatenateRaises(paths) ==
    \/ ~pillow
    \/ \E i \in 1..Len(paths) : paths[i] = "corrupt"

\* Lines 88-103: the images kept; the sheet is None when there is none
ExistingImages(paths) == SelectSeq(paths, LAMBDA k : k # "missing")

\* Lines 382-394: the content of the request
PlainText == [kind |-> "str", parts |-> <<"prompt">>]
SheetAndText == [kind |-> "list", parts |-> <<"sheet", "prompt">>]
MessageContentSheetWhenGiven(paths) ==
    IF paths # <<>> THEN SheetAndText ELSE PlainText

MessageContent(paths) ==
    IF paths # <<>> /\ ExistingImages(paths) # <<>> THEN SheetAndText ELSE PlainText

\* Lines 290-307 of _refine_image with lines 438-442 of generate_slide: the
\* parts of a refinement request.  The sheet is rebuilt from the same paths
\* (line 440) and is None when none of them exists; the artifact is the file
\* at the output path; the text carries the reason and the original prompt.
SheetPart == [type |-> "image_url", url |-> "sheet", id |-> 0, reason |-> EmptyText]
ArtifactPart(f) == [type |-> "image_url", url |-> "flawed", id |-> f.id, reason |-> EmptyText]
TextPart(why) == [type |-> "text", url |-> "prompt", id |-> 0, reason |-> why]

RefineContentSheetWhenGiven(paths, f, why) ==
    (IF paths # <<>> THEN <<SheetPart>> ELSE <<>>) \o <<ArtifactPart(f), TextPart(why)>>

RefineContent(paths, f, why) ==
    (IF paths # <<>> /\ ExistingImages(paths) # <<>> THEN <<SheetPart>> ELSE <<>>)
        \o <<ArtifactPart(f), TextPart(why)>>

\* Lines 396-400 and 407: the body built before the retry loop and sent by
\* attempt number a
RequestBodyNamesAttempt(content, a) ==
    [model |-> "model", role |-> "user", content |-> content,
     modalities |-> <<"image", "text">>, attempt |-> a]

RequestBody(content, a) ==
    [model |-> "model", role |-> "user", content |-> content,
     modalities |-> <<"image", "text">>]

\* Replies of the generation endpoint
MarkdownReply == <<"!", "[", "x", "]", "(", "h", "t", "t", "p", ":", "/", "/", "h", "/", "a", ".", "p", "n", "g", ")">>
BareReply == <<"h", "t", "t", "p", "s", ":", "/", "/", "h", "/", "b", ".", "J", "P", "G">>
ProseReply == <<"s", "o", "r", "r", "y">>
FailWithReason == <<"F", "A", "I", "L", ":", " ", "b", "a", "d">>
GenTexts == {MarkdownReply, BareReply, ProseReply}

GenOutcomes ==
    Exceptions
    \cup {Response(StatusError, "text", MarkdownReply)}
    \cup {Response(StatusOk, sh, EmptyText) : sh \in {"not_json", "no_choices", "empty_choices"}}
    \cup {Response(StatusOk, "text", t) : t \in GenTexts}

\* What requests.get(img_url) can do
Download(status, size, image) ==
    [kind |-> "response", status |-> status, size |-> size, image |-> image]
DownloadOutcomes ==
    {[kind |-> k, status |-> 0, size |-> 0, image |-> FALSE] : k \in {"timeout", "error"}}
    \cup {Download(st, n, im) : st \in {StatusOk, StatusError}, n \in Sizes, im \in BOOLEAN}

\* Line 431: img_resp.status_code == 200 and len(img_resp.content) > 1000
DownloadOkAnySize(d) == d.kind = "response" /\ d.status = StatusOk

DownloadOk(d) == d.kind = "response" /\ d.status = StatusOk /\ d.size > MinValidSize

\* Line 341: the same test in _refine_image
RefineDownloadOkAlways(d) == d.kind = "response"
RefineDownloadOk(d) == d.kind = "response" /\ d.status = StatusOk /\ d.size > MinValidSize

\* Lines 408-427 and 322-337: does the reply of a generation request give a
\* locator?  "raise" when reading it raises, "status" for a status other than
\* 200, "none" when no pattern matches, "locator" otherwise.
ReplyClass(r) ==
    IF r.kind # "response" THEN "raise"
    ELSE IF r.status # StatusOk THEN "status"
    ELSE IF ContentOf(r).raised THEN "raise"
    ELSE IF ExtractLocator(ContentOf(r).text) = NoLocator THEN "none"
    ELSE "locator"

\* Lines 408-411, 424-427 and 466-471: the delay after a generation request
\* that gave no locator
SleepAfterRequest(r) ==
    IF r.kind = "timeout" \/ ReplyClass(r) = "status" THEN SleepTransport ELSE SleepOther

\* Lines 463-471: the delay after a download that failed
SleepAfterDownloadTimeoutShort(d) == SleepOther

SleepAfterDownload(d) ==
    IF d.kind = "timeout" THEN SleepTransport ELSE SleepOther

\* The replies of the judge seen inside generate_slide
QCOutcomesInLoop ==
    Exceptions
    \cup {Response(StatusError, "text", EmptyText), Response(StatusOk, "empty_choices", EmptyText)}
    \cup {Response(StatusOk, "text", t) : t \in {PASS, FailWithReason, <<"f", "a", "i", "l", "u", "r", "e">>, ProseReply}}

\* Lines 456-458 and 462: after a failed refinement the loop breaks and the
\* call returns True
AfterRefineFailureReturnsFalse == "False"
AfterRefineFailure == "True"

\* Line 404: for attempt in range(1, retries + 1)
InRangeShort(a, n) == a < n
InRange(a, n) == a <= n

\* Line 443: for qc_round in range(max_refine)
RoundsLeftLong(r, n) == r <= n
RoundsLeft(r, n) == r < n

\* A download that gave a usable image: status 200 and more than the minimum
\* valid size (lines 431 and 341)
SuccessfulDownload(d) == d.kind = "response" /\ d.status = StatusOk /\ d.size > MinValidSize

NetCalls == genPosts + qcPosts + refinePosts + downloads

Return(v) ==
    /\ pc' = "done"
    /\ result' = v

\* Lines 408-411, 424-427 and 466-471: the class of a generation request
\* that gave no locator
FailureOfRequest(r) ==
    IF r.kind = "timeout" THEN "timeout"
    ELSE IF ReplyClass(r) = "status" THEN "status"
    ELSE IF ReplyClass(r) = "none" THEN "no_locator"
    ELSE "exception"

\* Lines 463-471: the class of a download that failed
FailureOfDownload(d) ==
    IF d.kind = "timeout" THEN "timeout"
    ELSE IF d.kind = "response" THEN "download"
    ELSE "exception"

\* The record of failed attempts, kept only when the call is observed
Observe(class, delay) ==
    IF failure = [pc |-> "idle"] THEN failure
    ELSE [failure EXCEPT !.class = class, !.sleeps = Append(@, delay),
                         !.attempts = Append(@, attempt)]

\* A failed attempt: sleep, then the next iteration of the retry loop
FailAttempt(class, delay) ==
    /\ lastSleep' = delay
    /\ failure' = Observe(class, delay)
    /\ attempt' = attempt + 1
    /\ pc' = "loop"
    /\ UNCHANGED result

inputVars == <<retries, max_refine, quality_check, api_key, reference_images,
               pillow, file0>>
counters == <<genPosts, qcPosts, refinePosts, downloads, evals, refines>>
verdictVars == <<passed, reason>>

InitSlide ==
    /\ retries \in 0..MaxRetries
    /\ max_refine \in 0..MaxRefine
    /\ quality_check \in BOOLEAN
    /\ api_key \in BOOLEAN
    /\ reference_images \in RefLists
    /\ pillow \in BOOLEAN
    /\ file \in {NoFile} \cup {Payload(0, n, TRUE) : n \in Sizes}
    /\ file0 = file
    /\ pc = "start"
    /\ attempt = 0
    /\ qc_round = 0
    /\ msg_content = PlainText
    /\ content_parts = <<>>
    /\ passed = "none"
    /\ reason = EmptyText
    /\ refined = "none"
    /\ result = "none"
    /\ genPosts = 0
    /\ bodies = {}
    /\ qcPosts = 0
    /\ refinePosts = 0
    /\ downloads = 0
    /\ evals = 0
    /\ refines = 0
    /\ lastGood = NoFile
    /\ lastSleep = 0

\* Lines 363-365: skip when the output is already there
SkipExisting ==
    /\ pc = "start"
    /\ AlreadyGenerated(file)
    /\ Return("True")
    /\ UNCHANGED notSlide
    /\ UNCHANGED <<inputVars, content_parts, bodies, file, attempt, qc_round, msg_content, verdictVars,
                   refined, counters, lastGood, lastSleep, failure>>

\* Line 368: `if not api_key`, after `api_key or os.getenv(...)` of line 367
NoApiKeyNeverTested(key) == FALSE

NoApiKey(key) == ~key

\* Lines 367-370: no API key
MissingCredential ==
    /\ pc = "start"
    /\ ~AlreadyGenerated(file)
    /\ NoApiKey(api_key)
    /\ Return("False")
    /\ UNCHANGED notSlide
    /\ UNCHANGED <<inputVars, content_parts, bodies, file, attempt, qc_round, msg_content, verdictVars,
                   refined, counters, lastGood, lastSleep, failure>>

\* Lines 372-402: build the request content, create the output directory.
\* Neither _concatenate_reference_images nor os.makedirs is inside a try.
\* os.makedirs(..., exist_ok=True) can fail only when the directory is not
\* there yet, so not when the output file exists.
ComposeRequest ==
    /\ pc = "start"
    /\ ~AlreadyGenerated(file)
    /\ ~NoApiKey(api_key)
    /\ IF reference_images # <<>> /\ ConcatenateRaises(reference_images)
       THEN Return("raised") /\ UNCHANGED <<msg_content, attempt>>
       ELSE /\ msg_content' = MessageContent(reference_images)
            /\ \E makedirs_ok \in (IF file.exists THEN {TRUE} ELSE BOOLEAN) :
                 IF makedirs_ok
                 THEN pc' = "loop" /\ attempt' = 1 /\ UNCHANGED result
                 ELSE Return("raised") /\ UNCHANGED attempt
    /\ UNCHANGED notSlide
    /\ UNCHANGED <<inputVars, content_parts, bodies, file, qc_round, verdictVars, refined, counters,
                   lastGood, lastSleep, failure>>

\* Lines 404 and 473-474: the retry loop is exhausted
Exhausted ==
    /\ pc = "loop"
    /\ ~InRange(attempt, retries)
    /\ Return("False")
    /\ UNCHANGED notSlide
    /\ UNCHANGED <<inputVars, content_parts, bodies, file, attempt, qc_round, msg_content, verdictVars,
                   refined, counters, lastGood, lastSleep, failure>>

\* Lines 405-427 and 466-471: one generation request and the reading of its reply
SendRequest ==
    /\ pc = "loop"
    /\ InRange(attempt, retries)
    /\ genPosts' = genPosts + 1
    /\ bodies' = bodies \cup {RequestBody(msg_content, attempt)}
    /\ \E r \in GenOutcomes :
         IF ReplyClass(r) = "locator"
         THEN pc' = "download" /\ UNCHANGED <<attempt, lastSleep, failure, result>>
         ELSE FailAttempt(FailureOfRequest(r), SleepAfterRequest(r))
    /\ UNCHANGED notSlide
    /\ UNCHANGED <<inputVars, content_parts, file, qc_round, msg_content, verdictVars, refined,
                   qcPosts, refinePosts, downloads, evals, refines, lastGood>>

\* Lines 429-442 and 462-471: download, validate, write; then return or enter
\* the quality loop
FetchImage ==
    /\ pc = "download"
    /\ downloads' = downloads + 1
    /\ \E d \in DownloadOutcomes :
         /\ lastGood' = IF SuccessfulDownload(d)
                        THEN Payload(downloads + 1, d.size, d.image)
                        ELSE lastGood
         /\ IF DownloadOk(d)
            THEN /\ file' = Payload(downloads + 1, d.size, d.image)
                 /\ evals' = 0
                 /\ refines' = 0
                 /\ IF quality_check
                    THEN pc' = "check" /\ qc_round' = 0 /\ UNCHANGED result
                    ELSE Return("True") /\ UNCHANGED qc_round
                 /\ UNCHANGED <<attempt, lastSleep, failure>>
            ELSE /\ FailAttempt(FailureOfDownload(d), SleepAfterDownload(d))
                 /\ UNCHANGED <<file, qc_round, evals, refines>>
    /\ UNCHANGED notSlide
    /\ UNCHANGED <<inputVars, content_parts, bodies, msg_content, verdictVars, refined, genPosts,
                   qcPosts, refinePosts>>

\* Lines 443-449 with _quality_check: one evaluation.  The encoding of the
\* artifact (line 235) is outside _quality_check's try, so its exception
\* reaches the except clause of the retry loop (lines 469-471).
QualityCheck ==
    /\ pc = "check"
    /\ RoundsLeft(qc_round, max_refine)
    /\ IF ~CanEncode(file)
       THEN FailAttempt("exception", SleepOther) /\ UNCHANGED <<qcPosts, evals, verdictVars>>
       ELSE /\ qcPosts' = qcPosts + 1
            /\ evals' = evals + 1
            /\ \E r \in QCOutcomesInLoop :
                 LET v == QualityVerdict(r) IN
                 /\ passed' = IF v.passed THEN "True" ELSE "False"
                 /\ reason' = v.reason
                 /\ IF v.passed
                    THEN Return("True")
                    ELSE pc' = "refine" /\ UNCHANGED result
            /\ UNCHANGED <<attempt, lastSleep, failure>>
    /\ UNCHANGED notSlide
    /\ UNCHANGED <<inputVars, content_parts, bodies, file, qc_round, msg_content, refined, genPosts,
                   refinePosts, downloads, refines, lastGood>>

\* Lines 443 and 459-462: the refine loop ran max_refine rounds
RefineExhausted ==
    /\ pc = "check"
    /\ ~RoundsLeft(qc_round, max_refine)
    /\ Return("True")
    /\ UNCHANGED notSlide
    /\ UNCHANGED <<inputVars, content_parts, bodies, file, attempt, qc_round, msg_content, verdictVars,
                   refined, counters, lastGood, lastSleep, failure>>

\* Lines 452-458 with _refine_image lines 290-337: the refinement request.
\* Line 290 encodes the artifact outside _refine_image's try.
RefineRequest ==
    /\ pc = "refine"
    /\ IF ~CanEncode(file)
       THEN FailAttempt("exception", SleepOther)
            /\ UNCHANGED <<refinePosts, refines, refined, content_parts>>
       ELSE /\ refinePosts' = refinePosts + 1
            /\ content_parts' = RefineContent(reference_images, file, reason)
            /\ refines' = refines + 1
            /\ \E r \in GenOutcomes :
                 IF ReplyClass(r) = "locator"
                 THEN pc' = "refine_download" /\ UNCHANGED <<refined, result>>
                 ELSE refined' = "False" /\ Return(AfterRefineFailure)
            /\ UNCHANGED <<attempt, lastSleep, failure>>
    /\ UNCHANGED notSlide
    /\ UNCHANGED <<inputVars, bodies, file, qc_round, msg_content, verdictVars,
                   genPosts, qcPosts, downloads, evals, lastGood>>

\* Lines 339-349 and 456-458: the download of the refined image
RefineFetch ==
    /\ pc = "refine_download"
    /\ downloads' = downloads + 1
    /\ \E d \in DownloadOutcomes :
         /\ lastGood' = IF SuccessfulDownload(d)
                        THEN Payload(downloads + 1, d.size, d.image)
                        ELSE lastGood
         /\ IF RefineDownloadOk(d)
            THEN /\ file' = Payload(downloads + 1, d.size, d.image)
                 /\ refined' = "True"
                 /\ qc_round' = qc_round + 1
                 /\ pc' = "check"
                 /\ UNCHANGED result
            ELSE /\ refined' = "False"
                 /\ Return(AfterRefineFailure)
                 /\ UNCHANGED <<file, qc_round>>
    /\ UNCHANGED notSlide
    /\ UNCHANGED <<inputVars, content_parts, bodies, attempt, msg_content, verdictVars, genPosts,
                   qcPosts, refinePosts, evals, refines, lastSleep, failure>>

NextSlide ==
    \/ SkipExisting
    \/ MissingCredential
    \/ ComposeRequest
    \/ Exhausted
    \/ SendRequest
    \/ FetchImage
    \/ QualityCheck
    \/ RefineExhausted
    \/ RefineRequest
    \/ RefineFetch

IdleQC ==
    /\ qcpc = "idle"
    /\ qcImage = FALSE
    /\ qcReply = None
    /\ qcVerdict = None

\* An entry point that is not being called
Idle == [pc |-> "idle"]

IdleOthersBut(name) ==
    /\ name = "refcall" \/ refcall = Idle
    /\ name = "dltest" \/ dltest = Idle
    /\ name = "extraction" \/ extraction = Idle
    /\ name = "sheet" \/ sheet = Idle
    /\ name = "label" \/ label = Idle
    /\ name = "deck" \/ deck = Idle
    /\ name = "race" \/ race = Idle
    /\ name = "failure" \/ failure = Idle
    /\ name = "project" \/ project = Idle
IdleOthers == IdleOthersBut("none")

Init == InitSlide /\ IdleQC /\ IdleOthers
Next == NextSlide
Spec == Init /\ [][Next]_vars

\* _quality_check on its own, generate_slide not running
\* A generate_slide call without reference images whose failed attempts are
\* recorded
InitRetry ==
    /\ InitSlide
    /\ reference_images = <<>>
    /\ pillow
    /\ IdleQC
    /\ IdleOthersBut("failure")
    /\ failure = [pc |-> "observed", class |-> "none", sleeps |-> <<>>,
                  attempts |-> <<>>]
SpecRetry == InitRetry /\ [][NextSlide]_vars

IdleSlide ==
    /\ retries = 0
    /\ max_refine = 0
    /\ quality_check = FALSE
    /\ api_key = FALSE
    /\ reference_images = <<>>
    /\ pillow = TRUE
    /\ file = NoFile
    /\ file0 = NoFile
    /\ pc = "idle"
    /\ attempt = 0
    /\ qc_round = 0
    /\ msg_content = PlainText
    /\ content_parts = <<>>
    /\ passed = "none"
    /\ reason = EmptyText
    /\ refined = "none"
    /\ result = "none"
    /\ genPosts = 0
    /\ bodies = {}
    /\ qcPosts = 0
    /\ refinePosts = 0
    /\ downloads = 0
    /\ evals = 0
    /\ refines = 0
    /\ lastGood = NoFile
    /\ lastSleep = 0

InitQCSpec == InitQC /\ IdleSlide /\ IdleOthers
NextQC == QCEncode \/ QCPost
SpecQC == InitQCSpec /\ [][NextQC]_vars

(***************************************************************************)
(* generate_reference.generate_reference (lines 113-206): the same         *)
(* pipeline without the skip test, without the quality loop, with its own  *)
(* size test, and with the download decoded, resized and saved as PNG.     *)
(* Pillow is required by the script (lines 38-44), so Image is never None. *)
(***************************************************************************)

\* Lines 183-203: what the reference pipeline does with a download.  Line
\* 184 rejects it when status_code != 200 or len(content) < 1000; line 190
\* raises when the content is no image.
RefDownloadClass(d) ==
    IF d.kind # "response" THEN "raise"
    ELSE IF d.status # StatusOk \/ d.size < MinValidSize THEN "rejected"
    ELSE IF ~d.image THEN "raise"
    ELSE "saved"

InitRef ==
    refcall \in { [pc |-> "start", retries |-> n, api_key |-> k,
                   reference_images |-> refs, file |-> f, file0 |-> f,
                   msg_content |-> PlainText, attempt |-> 0, result |-> "none",
                   posts |-> 0, gets |-> 0, lastSleep |-> 0] :
                  n \in 0..MaxRetries, k \in BOOLEAN, refs \in RefLists,
                  f \in {NoFile} \cup {Payload(0, sz, TRUE) : sz \in Sizes} }

\* Lines 116-119: the key is read from the environment only
RefMissingCredential ==
    /\ refcall.pc = "start"
    /\ ~refcall.api_key
    /\ refcall' = [refcall EXCEPT !.pc = "done", !.result = "False"]
    /\ UNCHANGED notRef

\* Lines 131-152: neither the sheet builder nor os.makedirs is inside a try.
\* The builder raises when Image.open meets an existing file that is no
\* image (line 79), before the content is bound; the content is the list
\* [sheet, prompt] when the builder returned a sheet and the prompt otherwise
\* (lines 132-144).  os.makedirs (line 152) runs after the content is bound,
\* so a call it ends has composed its content already.
RefCompose ==
    /\ refcall.pc = "start"
    /\ refcall.api_key
    /\ IF \E i \in 1..Len(refcall.reference_images) :
            refcall.reference_images[i] = "corrupt"
       THEN refcall' = [refcall EXCEPT !.pc = "done", !.result = "raised"]
       ELSE LET content == IF \E i \in 1..Len(refcall.reference_images) :
                                 refcall.reference_images[i] # "missing"
                           THEN SheetAndText ELSE PlainText
            IN \E makedirs_ok \in (IF refcall.file.exists THEN {TRUE} ELSE BOOLEAN) :
                 IF makedirs_ok
                 THEN refcall' = [refcall EXCEPT !.pc = "loop", !.attempt = 1,
                                                !.msg_content = content]
                 ELSE refcall' = [refcall EXCEPT !.pc = "done", !.result = "raised",
                                                !.msg_content = content]
    /\ UNCHANGED notRef

\* Lines 154 and 205-206: range(1, retries + 1) is exhausted
RefExhausted ==
    /\ refcall.pc = "loop"
    /\ refcall.attempt > refcall.retries
    /\ refcall' = [refcall EXCEPT !.pc = "done", !.result = "False"]
    /\ UNCHANGED notRef

\* Lines 155-180 and 198-203
RefSend ==
    /\ refcall.pc = "loop"
    /\ refcall.attempt <= refcall.retries
    /\ \E r \in GenOutcomes :
         IF ReplyClass(r) = "locator"
         THEN refcall' = [refcall EXCEPT !.pc = "download",
                                         !.posts = @ + 1]
         ELSE refcall' = [refcall EXCEPT !.pc = "loop",
                                         !.posts = @ + 1,
                                         !.attempt = @ + 1,
                                         !.lastSleep = SleepAfterRequest(r)]
    /\ UNCHANGED notRef

\* Lines 182-203.  The file written is the decoded and resized image saved
\* as PNG, so its size is not the size of the download.
RefFetch ==
    /\ refcall.pc = "download"
    /\ \E d \in DownloadOutcomes :
         IF RefDownloadClass(d) = "saved"
         THEN \E sz \in Sizes :
                refcall' = [refcall EXCEPT !.pc = "done",
                                           !.result = "True",
                                           !.gets = @ + 1,
                                           !.file = Payload(refcall.gets + 1, sz, TRUE)]
         ELSE refcall' = [refcall EXCEPT !.pc = "loop",
                                         !.gets = @ + 1,
                                         !.attempt = @ + 1,
                                         !.lastSleep = IF RefDownloadClass(d) = "rejected"
                                                       THEN SleepOther
                                                       ELSE SleepAfterDownload(d)]
    /\ UNCHANGED notRef

\* One call of either pipeline
InitCalls ==
    /\ IdleQC
    /\ \/ InitSlide /\ IdleOthers
       \/ IdleSlide /\ InitRef /\ IdleOthersBut("refcall")
NextCalls ==
    \/ SkipExisting
    \/ MissingCredential
    \/ ComposeRequest
    \/ Exhausted
    \/ SendRequest
    \/ FetchImage
    \/ QualityCheck
    \/ RefineExhausted
    \/ RefineRequest
    \/ RefineFetch
    \/ RefMissingCredential
    \/ RefCompose
    \/ RefExhausted
    \/ RefSend
    \/ RefFetch
SpecCalls == InitCalls /\ [][NextCalls]_vars



(***************************************************************************)
(* The size test on a download, at its three places: generate_slide line   *)
(* 431, _refine_image line 341, generate_reference line 184.  One state    *)
(* per place and response; the step applies the test and what follows it.  *)
(***************************************************************************)
InitDownload ==
    /\ dltest \in
         {[pc |-> "test", site |-> s, effect |-> "none",
           img_resp |-> Download(st, n, im)] :
          s \in {"generate_slide", "_refine_image", "generate_reference"},
          st \in {StatusOk, StatusError},
          n \in Sizes \cup {0, 2 * MinValidSize},
          im \in BOOLEAN}
    /\ IdleSlide /\ IdleQC /\ IdleOthersBut("dltest")

\* What the code after the test does: the file is written, or the download
\* is a failure (continue, return False, or an exception caught by the loop)
TestEffect(accepted) == IF accepted THEN "written" ELSE "failure"

\* The test and its two branches: generate_slide lines 430-433 and 463-465,
\* _refine_image lines 340-346, generate_reference lines 183-196
DownloadTest ==
    /\ dltest.pc = "test"
    /\ LET accepted ==
             IF dltest.site = "generate_slide" THEN DownloadOk(dltest.img_resp)
             ELSE IF dltest.site = "_refine_image" THEN RefineDownloadOk(dltest.img_resp)
             ELSE RefDownloadClass(dltest.img_resp) = "saved"
       IN dltest' = [dltest EXCEPT !.pc = "done", !.effect = TestEffect(accepted)]
    /\ UNCHANGED notDownload

SpecDownload == InitDownload /\ [][DownloadTest]_vars


(***************************************************************************)
(* Locator extraction on its own (generate_slide lines 414-427, the same   *)
(* code in _refine_image lines 329-337 and generate_reference lines        *)
(* 166-180).  A reply text is put together from up to three pieces         *)
(* separated by single spaces; every piece records the URL the markdown    *)
(* pattern captures in it and the URL the bare-URL pattern matches in it.  *)
(***************************************************************************)
Piece(text, md, bare) == [text |-> text, md |-> md, bare |-> bare]
\* a bare image URL with an extension in capitals
UpperCaseBare ==
    Piece(<<"h", "t", "t", "p", ":", "/", "/", "h", "/", "e", ".", "P", "N", "G">>,
          NoLocator,
          <<"h", "t", "t", "p", ":", "/", "/", "h", "/", "e", ".", "P", "N", "G">>)
\* a markdown image reference
MarkdownImage ==
    Piece(<<"!", "[", "x", "]", "(", "h", "t", "t", "p", ":", "/", "/", "h", "/", "a", ".", "p", "n", "g", ")">>,
          <<"h", "t", "t", "p", ":", "/", "/", "h", "/", "a", ".", "p", "n", "g">>,
          <<"h", "t", "t", "p", ":", "/", "/", "h", "/", "a", ".", "p", "n", "g">>)
\* a bare image URL
JpegBare ==
    Piece(<<"h", "t", "t", "p", "s", ":", "/", "/", "h", "/", "c", ".", "j", "p", "e", "g">>,
          NoLocator,
          <<"h", "t", "t", "p", "s", ":", "/", "/", "h", "/", "c", ".", "j", "p", "e", "g">>)

\* Nothing, prose, a bare image URL, a URL cut by a carriage return before
\* its image extension, a URL without image extension
PiecesBefore ==
    {Piece(<<>>, NoLocator, NoLocator),
     Piece(<<"s", "e", "e">>, NoLocator, NoLocator),
     UpperCaseBare,
     Piece(<<"h", "t", "t", "p", ":", "/", "/", "h", "/", "\r", "g", ".", "p", "n", "g">>, NoLocator, NoLocator),
     Piece(<<"h", "t", "t", "p", "s", ":", "/", "/", "h", "/", "p">>, NoLocator, NoLocator)}
\* Nothing, a markdown image reference, one whose URL has no image
\* extension, a markdown link that is no image reference
PiecesMiddle ==
    {Piece(<<>>, NoLocator, NoLocator),
     MarkdownImage,
     Piece(<<"!", "[", "]", "(", "h", "t", "t", "p", "s", ":", "/", "/", "h", "/", "v", ")">>,
           <<"h", "t", "t", "p", "s", ":", "/", "/", "h", "/", "v">>,
           NoLocator),
     Piece(<<"[", "x", "]", "(", "h", "t", "t", "p", ":", "/", "/", "h", "/", "b", ".", "g", "i", "f", ")">>,
           NoLocator,
           <<"h", "t", "t", "p", ":", "/", "/", "h", "/", "b", ".", "g", "i", "f">>)}
\* Nothing, prose, a bare image URL, another markdown image reference
PiecesAfter ==
    {Piece(<<>>, NoLocator, NoLocator),
     Piece(<<"s", "e", "e">>, NoLocator, NoLocator),
     JpegBare,
     Piece(<<"!", "[", "y", "]", "(", "h", "t", "t", "p", ":", "/", "/", "h", "/", "d", ".", "w", "e", "b", "p", ")">>,
           <<"h", "t", "t", "p", ":", "/", "/", "h", "/", "d", ".", "w", "e", "b", "p">>,
           <<"h", "t", "t", "p", ":", "/", "/", "h", "/", "d", ".", "w", "e", "b", "p">>)}

\* " ".join of the pieces that are not empty
JoinPieces(ps) ==
    LET RECURSIVE join(_)
        join(i) ==
            IF i > Len(ps) THEN <<>>
            ELSE LET rest == join(i + 1) IN
                 IF ps[i].text = <<>> THEN rest
                 ELSE IF rest = <<>> THEN ps[i].text
                 ELSE ps[i].text \o <<" ">> \o rest
    IN join(1)

InitExtraction ==
    /\ extraction \in {[pc |-> "search", pieces |-> <<b, m, a>>,
                        text |-> JoinPieces(<<b, m, a>>),
                        url_match |-> NoLocator, outcome |-> "none"] :
                       b \in PiecesBefore, m \in PiecesMiddle, a \in PiecesAfter}
    /\ IdleSlide /\ IdleQC /\ IdleOthersBut("extraction")

\* Lines 418-429: the two searches, then `continue` or the download
Extract ==
    /\ extraction.pc = "search"
    /\ LET found == ExtractLocator(extraction.text) IN
       extraction' = [extraction EXCEPT
                        !.pc = "done",
                        !.url_match = found,
                        !.outcome = IF found = NoLocator THEN "retry" ELSE "download"]
    /\ UNCHANGED notExtraction

SpecExtraction == InitExtraction /\ [][Extract]_vars


(***************************************************************************)
(* The reference-sheet builders: _concatenate_reference_images of          *)
(* generate_slide.py (lines 69-156, with labels) and                       *)
(* concatenate_reference_images of generate_reference.py (lines 73-110).   *)
(* An image is its size in pixels; the sheet is the size of what is saved  *)
(* and, for a grid, the box each image is pasted into.                     *)
(***************************************************************************)
MaxPaths == 4

MaxCols == 3
LabelHeight == 24
\* A path: no file, a file Pillow cannot open, or an image of w x h pixels
MissingPath == [kind |-> "missing", w |-> 0, h |-> 0]
CorruptPath == [kind |-> "corrupt", w |-> 0, h |-> 0]
Picture(w, h) == [kind |-> "image", w |-> w, h |-> h]
\* Lists of paths; the images are smaller than the cell, larger, and taller
PathLists ==
    LET kinds == {MissingPath, CorruptPath, Picture(100, 50), Picture(800, 600),
                  Picture(300, 900)}
    IN UNION {[1..n -> kinds] : n \in 0..MaxPaths}

Larger(a, b) == IF a >= b THEN a ELSE b

\* generate_slide.py lines 40-51 (generate_reference.py lines 47-58 are the
\* same): int(h * max_size / w) is the quotient rounded down
ResizeImage(img, max_size) ==
    IF Larger(img.w, img.h) <= max_size THEN img
    ELSE IF img.w >= img.h
         THEN Picture(max_size, (img.h * max_size) \div img.w)
         ELSE Picture((img.w * max_size) \div img.h, max_size)

\* Lines 90-92: the indices of the paths that exist, in input order
ExistingIndices(paths) ==
    LET RECURSIVE from(_)
        from(i) == IF i > Len(paths) THEN <<>>
                   ELSE IF paths[i].kind = "missing" THEN from(i + 1)
                   ELSE <<i>> \o from(i + 1)
    IN from(1)

LabelAtNextIndex(labels, i) ==
    IF labels # <<>> /\ i < Len(labels) THEN labels[i + 1] ELSE 0

\* Lines 97-100: the label paired with the path at (1-based) index i;
\* 0 stands for None
LabelAt(labels, i) ==
    IF labels # <<>> /\ i <= Len(labels) THEN labels[i] ELSE 0

\* Lines 124-125
GridCols(n, max_cols) == IF n <= max_cols THEN n ELSE max_cols
GridRowsRoundedDown(n, cols) == n \div cols

GridRows(n, cols) == (n + cols - 1) \div cols

\* Lines 83-85, 93 and 102-103: a call that ends without a sheet, by
\* returning None ("None") or by an exception ("raised")
NoSheet(kind) ==
    [kind |-> kind, w |-> 0, h |-> 0, cols |-> 0, rows |-> 0, cells |-> <<>>]

\* Lines 105-116: one image, resized to the cell, its label drawn on it
SingleSheet(paths, kept, cell_size, labels) ==
    LET img == ResizeImage(paths[kept[1]], cell_size) IN
    [kind |-> "single", w |-> img.w, h |-> img.h, cols |-> 0, rows |-> 0,
     cells |-> << [source |-> kept[1], label |-> LabelAt(labels, kept[1]),
                   x |-> 0, y |-> 0, w |-> img.w, h |-> img.h] >>]

\* Lines 118-151: the grid; each image below the label strip of its cell.
\* The grid of generate_reference.py (lines 93-105) is the same without the
\* strip: label_h = 0, the whole cell for the image, no labels.
GridSheet(paths, kept, cell_size, max_cols, labels, label_h) ==
    LET img_area == cell_size - label_h
        n == Len(kept)
        cols == GridCols(n, max_cols)
        rows == GridRows(n, cols)
        cell(k) ==
            LET i == k - 1
                row == i \div cols
                col == i % cols
                cell_x == col * cell_size
                cell_y == row * cell_size
                img == ResizeImage(paths[kept[k]], img_area)
            IN [source |-> kept[k], label |-> LabelAt(labels, kept[k]),
                x |-> cell_x + (cell_size - img.w) \div 2,
                y |-> cell_y + label_h + (img_area - img.h) \div 2,
                w |-> img.w, h |-> img.h]
    IN [kind |-> "grid", w |-> cols * cell_size, h |-> rows * cell_size,
        cols |-> cols, rows |-> rows, cells |-> [k \in 1..n |-> cell(k)]]

\* Lines 83-85: without Pillow the builder raises before it looks at a path
PillowMissingIgnored(pillow_ok) == FALSE

PillowMissing(pillow_ok) == ~pillow_ok

\* _concatenate_reference_images, lines 69-156
ConcatenateReferenceImages(paths, cell_size, max_cols, labels, pillow_ok) ==
    LET kept == ExistingIndices(paths) IN
    IF PillowMissing(pillow_ok) THEN NoSheet("raised")
    ELSE IF \E k \in 1..Len(kept) : paths[kept[k]].kind = "corrupt" THEN NoSheet("raised")
    ELSE IF kept = <<>> THEN NoSheet("None")
    ELSE IF Len(kept) = 1 THEN SingleSheet(paths, kept, cell_size, labels)
    ELSE GridSheet(paths, kept, cell_size, max_cols, labels, LabelHeight)

\* concatenate_reference_images of generate_reference.py, lines 73-110:
\* no labels, every image resized to the whole cell (line 82)
RefConcatenateReferenceImages(paths, cell_size, max_cols) ==
    LET kept == ExistingIndices(paths) IN
    IF \E k \in 1..Len(kept) : paths[kept[k]].kind = "corrupt" THEN NoSheet("raised")
    ELSE IF kept = <<>> THEN NoSheet("None")
    ELSE IF Len(kept) = 1 THEN SingleSheet(paths, kept, cell_size, <<>>)
    ELSE GridSheet(paths, kept, cell_size, max_cols, <<>>, 0)

\* The cell size is 256 (the default) or 512 (the max_size default of
\* generate_reference); the labels argument is None, one label only, or one
\* label per path, the label given for the path at index i being the number i
InitSheet ==
    /\ sheet \in
         {[pc |-> "call", builder |-> "_concatenate_reference_images",
           paths |-> ps, cell_size |-> c, labels |-> ls, pillow |-> pw,
           result |-> NoSheet("None")] :
          ps \in PathLists, c \in {256, 512},
          ls \in {<<>>, <<1>>, [i \in 1..MaxPaths |-> i]}, pw \in BOOLEAN}
         \cup
         {[pc |-> "call", builder |-> "concatenate_reference_images",
           paths |-> ps, cell_size |-> c, labels |-> <<>>, pillow |-> TRUE,
           result |-> NoSheet("None")] :
          ps \in PathLists, c \in {256, 512}}
    /\ IdleSlide /\ IdleQC /\ IdleOthersBut("sheet")

\* One call of _concatenate_reference_images or of
\* generate_reference.concatenate_reference_images
BuildSheet ==
    /\ sheet.pc = "call"
    /\ sheet' = [sheet EXCEPT
                   !.pc = "done",
                   !.result =
                       IF sheet.builder = "_concatenate_reference_images"
                       THEN ConcatenateReferenceImages(
                                sheet.paths, sheet.cell_size, MaxCols,
                                sheet.labels, sheet.pillow)
                       ELSE RefConcatenateReferenceImages(
                                sheet.paths, sheet.cell_size, MaxCols)]
    /\ UNCHANGED notSheet

SpecSheet == InitSheet /\ [][BuildSheet]_vars


(***************************************************************************)
(* _sanitize_label (generate_slide.py lines 199-208).  A label is a        *)
(* sequence of characters; a character outside ASCII is written by the     *)
(* name of its code point.                                                 *)
(***************************************************************************)
MaxLabelLen == 4

\* The characters with ord(ch) >= 128 a label is drawn from: a CJK character,
\* an accented letter, and the spaces outside ASCII
NonAsciiChars == {"U+4E2D", "U+00E9"} \cup UnicodeSpaces
\* Labels over a letter, a space, a carriage return, a CJK character and a
\* no-break space
LabelTexts == UNION {[1..n -> {"a", " ", "\r", "U+4E2D", "U+00A0"}] : n \in 0..MaxLabelLen}

\* Line 206: ord(ch) < 128
IsAscii(ch) == ch \notin NonAsciiChars

\* Lines 199-208
SanitizeLabelNoFallback(text, cjk_supported) ==
    IF cjk_supported THEN text
    ELSE Strip(SelectSeq(text, IsAscii))

SanitizeLabel(text, cjk_supported) ==
    IF cjk_supported THEN text
    ELSE LET clean == SelectSeq(text, IsAscii) IN
         IF Strip(clean) # <<>> THEN Strip(clean) ELSE text

InitLabel ==
    /\ label \in {[pc |-> "call", text |-> t, cjk_supported |-> c, result |-> <<>>] :
                  t \in LabelTexts, c \in BOOLEAN}
    /\ IdleSlide /\ IdleQC /\ IdleOthersBut("label")

Sanitize ==
    /\ label.pc = "call"
    /\ label' = [label EXCEPT
                   !.pc = "done",
                   !.result = SanitizeLabel(label.text, label.cjk_supported)]
    /\ UNCHANGED notLabel

SpecLabel == InitLabel /\ [][Sanitize]_vars


(***************************************************************************)
(* generate_deck.run_deck (lines 135-222): the main thread submits one     *)
(* task per slide to a pool of `workers` threads, collects the futures as  *)
(* they complete, then gathers the slide files and assembles the PDF.      *)
(* generate_slide is seen here by its result and by the file it leaves.    *)
(***************************************************************************)
MaxSlides == 3
MaxWorkers == 2

Filenames == {"a.png", "b.png"}
\* A slide entry of the plan: its filename, None when the entry has no
\* "filename" key, and whether it has a "prompt" key.  The lookups of lines
\* 103 and 104 raise KeyError in the worker when the key is missing, the
\* lookup of line 182 raises it in the main thread.
Plans ==
    UNION {[1..n -> [filename : Filenames \cup {None}, prompt : BOOLEAN]] : n \in 0..MaxSlides}

\* The slides directory when run_deck starts: the size of the file of each
\* name, 0 when there is none
Disks ==
    {[f \in Filenames |-> 0],
     [f \in Filenames |-> IF f = "a.png" THEN MinValidSize ELSE 0],
     [f \in Filenames |-> IF f = "a.png" THEN MinValidSize + 1 ELSE 0]}

\* The size of a file generate_slide has written: both downloads are written
\* only when longer than the minimum (generate_slide.py lines 341 and 431)
WrittenSize == MinValidSize + 1

\* generate_slide.py line 363, as generate_one_slide reaches it: an existing
\* file longer than the minimum is skipped
SkipTest(size) == size > MinValidSize

\* How generate_one_slide can end, by where its task stands.  An entry
\* without filename raises KeyError at line 103, one without prompt at line
\* 104; a skipped file gives True;
\* a call that has written nothing returned False (no key, retries
\* exhausted) or raised (the sheet builder or os.makedirs, which are outside
\* the try); a call that has written returned True, or False when a later
\* step of the same attempt raised and the retries ran out; a call that has
\* opened the file goes on to write it.
SlideOutcomes(entry, status) ==
    IF status = "running"
    THEN (IF entry.filename # None /\ entry.prompt THEN {} ELSE {"raised"})
    ELSE IF status = "skipping" THEN {"True"}
    ELSE IF status = "generating" THEN {"False", "raised"}
    ELSE IF status = "written" THEN {"True", "False"}
    ELSE {}

\* Lines 186-193: what the main thread records for a completed future
RecordedOutcomeKeepsException(outcome) == outcome

RecordedOutcome(outcome) ==
    IF outcome = "raised" THEN "False" ELSE outcome

\* slides_to_pdf.combine_images_to_pdf: it reports success or failure
CombineResults == BOOLEAN

\* Lines 205-209: the files for the PDF, in plan order
SlideFilesInCompletionOrder(plan, disk) ==
    LET names == [k \in 1..Len(deck.order) |-> plan[deck.order[k]].filename]
    IN SelectSeq(names, LAMBDA f : disk[f] > MinValidSize)

\* Lines 204-209: the files of the plan's entries, in plan order, that exist
\* and are longer than 1000 bytes
SlideFiles(plan, disk) ==
    LET names == [i \in 1..Len(plan) |-> plan[i].filename]
    IN SelectSeq(names, LAMBDA f : disk[f] > MinValidSize)

InitDeck ==
    /\ deck \in {[pc |-> "start", plan |-> p, workers |-> w,
                  task |-> [i \in 1..Len(p) |-> "unsubmitted"],
                  outcome |-> [i \in 1..Len(p) |-> "none"],
                  recorded |-> [i \in 1..Len(p) |-> "none"],
                  calls |-> [i \in 1..Len(p) |-> 0],
                  invoked |-> [i \in 1..Len(p) |-> 0],
                  results |-> [f \in Filenames |-> "none"],
                  order |-> <<>>, succeeded |-> 0, failed |-> 0,
                  disk |-> d, slide_files |-> <<>>, pdf |-> "none",
                  ret |-> "none"] :
                 p \in Plans, w \in 1..MaxWorkers, d \in Disks}
    /\ IdleSlide /\ IdleQC /\ IdleOthersBut("deck")

TasksIn(status) == {i \in 1..Len(deck.plan) : deck.task[i] = status}
First(S) == CHOOSE i \in S : \A j \in S : i <= j

\* Lines 159-161
EmptyPlan ==
    /\ deck.pc = "start"
    /\ deck.plan = <<>>
    /\ deck' = [deck EXCEPT !.pc = "done", !.ret = "False"]
    /\ UNCHANGED notDeck

\* Lines 177-182: the next slide of the plan is submitted to the pool, and
\* the future is filed under slide_info["filename"].  For an entry without
\* filename that lookup raises KeyError in the main thread, after the task
\* was submitted: the loop is left and no later entry is submitted.
Submit ==
    /\ deck.pc \in {"start", "submit"}
    /\ TasksIn("unsubmitted") # {}
    /\ LET i == First(TasksIn("unsubmitted")) IN
       deck' = [deck EXCEPT
                  !.task[i] = "queued",
                  !.pc = IF deck.plan[i].filename = None THEN "aborting"
                         ELSE IF i = Len(deck.plan) THEN "collect" ELSE "submit"]
    /\ UNCHANGED notDeck

\* Line 175: the KeyError leaves the with block, whose exit is
\* executor.shutdown(wait=True): the tasks submitted so far run to their end,
\* then run_deck raises.  Nothing is recorded and no PDF is assembled.
Abort ==
    /\ deck.pc = "aborting"
    /\ TasksIn("queued") = {}
    /\ \A i \in 1..Len(deck.plan) : deck.task[i] \in {"unsubmitted", "finished"}
    /\ deck' = [deck EXCEPT !.pc = "aborted", !.ret = "raised"]
    /\ UNCHANGED notDeck

\* Line 175: ThreadPoolExecutor(max_workers=workers) runs a task only on a
\* thread of the pool, and the pool has at most `workers` threads
WorkerFreeAlways(running, workers) == TRUE

WorkerFree(running, workers) == running < workers

\* The tasks that have entered generate_one_slide and not yet completed
HeldStatuses == {"running", "skipping", "generating", "opened", "written"}
Held == {i \in 1..Len(deck.plan) : deck.task[i] \in HeldStatuses}

\* A thread of the pool enters generate_one_slide; `calls` counts these
\* entries.  The threads take the tasks from the queue oldest first, but
\* taking a task and entering the function are two steps of a thread, so
\* with several threads a task taken later can enter first: a queued task
\* can enter when the pool has a thread for it and for every task queued
\* before it, besides the threads that are inside the function.
StartSlide ==
    /\ \E i \in TasksIn("queued") :
         /\ WorkerFree(Cardinality(Held)
                          + Cardinality({j \in TasksIn("queued") : j < i}),
                       deck.workers)
         /\ deck' = [deck EXCEPT !.task[i] = "running", !.calls[i] = @ + 1]
    /\ UNCHANGED notDeck

\* generate_one_slide line 126 with generate_slide.py line 363: the call of
\* generate_slide, counted by `invoked`, and its test of the file as it is
\* at that moment
TestExisting ==
    /\ \E i \in TasksIn("running") :
         /\ deck.plan[i].filename # None
         /\ deck.plan[i].prompt
         /\ deck' = [deck EXCEPT
                       !.invoked[i] = @ + 1,
                       !.task[i] = IF SkipTest(deck.disk[deck.plan[i].filename])
                                   THEN "skipping" ELSE "generating"]
    /\ UNCHANGED notDeck

\* generate_slide.py lines 432 and 342: open(output, "wb") cuts the slide's
\* file to 0 bytes, whatever another worker has put there; a call opens the
\* file for its first download and again for a later one (a refinement, or
\* the download of a later attempt)
OpenSlide ==
    /\ \E i \in TasksIn("generating") \cup TasksIn("written") :
         deck' = [deck EXCEPT !.task[i] = "opened",
                              !.disk[deck.plan[i].filename] = 0]
    /\ UNCHANGED notDeck

\* generate_slide.py lines 433 and 343: f.write(img_resp.content) and the
\* close of the file when the with block is left; the bytes are in the file
\* from then on
WriteSlide ==
    /\ \E i \in TasksIn("opened") :
         deck' = [deck EXCEPT !.task[i] = "written",
                              !.disk[deck.plan[i].filename] = WrittenSize]
    /\ UNCHANGED notDeck

\* generate_one_slide returns or raises in its worker thread
FinishSlide ==
    /\ \E i \in Held :
         \E r \in SlideOutcomes(deck.plan[i], deck.task[i]) :
           deck' = [deck EXCEPT !.task[i] = "finished", !.outcome[i] = r]
    /\ UNCHANGED notDeck

\* Lines 184-193: as_completed yields a finished future
Collect ==
    /\ deck.pc = "collect"
    /\ \E i \in TasksIn("finished") :
         deck' = [deck EXCEPT
                    !.task[i] = "collected",
                    !.order = Append(@, i),
                    !.recorded[i] = RecordedOutcome(deck.outcome[i]),
                    !.results[deck.plan[i].filename] =
                        RecordedOutcome(deck.outcome[i])]
    /\ UNCHANGED notDeck

CountResultsPerEntry(results, v) ==
    Cardinality({i \in 1..Len(deck.plan) : deck.recorded[i] = v})

\* Lines 196-197: sum(1 for v in results.values() if v), and the same for
\* `not v`, over the dict keyed by filename
CountResults(results, v) ==
    Cardinality({f \in DOMAIN results : results[f] = v})

\* Lines 195-222: report, collect the files, assemble the PDF
Assemble ==
    /\ deck.pc = "collect"
    /\ TasksIn("collected") = 1..Len(deck.plan)
    /\ LET files == SlideFiles(deck.plan, deck.disk)
           succeeded == CountResults(deck.results, "True")
           failed == CountResults(deck.results, "False")
       IN
       IF files = <<>>
       THEN deck' = [deck EXCEPT !.pc = "done", !.ret = "False",
                                 !.succeeded = succeeded, !.failed = failed]
       ELSE \E ok \in CombineResults :
              deck' = [deck EXCEPT
                         !.pc = "done",
                         !.succeeded = succeeded, !.failed = failed,
                         !.slide_files = files,
                         !.pdf = IF ok THEN "written" ELSE "failed",
                         !.ret = IF ok THEN "True" ELSE "False"]
    /\ UNCHANGED notDeck

NextDeck ==
    \/ EmptyPlan
    \/ Submit
    \/ StartSlide
    \/ TestExisting
    \/ OpenSlide
    \/ WriteSlide
    \/ FinishSlide
    \/ Collect
    \/ Abort
    \/ Assemble
SpecDeck == InitDeck /\ [][NextDeck]_vars

(***************************************************************************)
(* Two concurrent calls of generate_slide on one output path, as two       *)
(* workers of run_deck make them for two entries with one filename.  Both   *)
(* calls hold an API key and pass quality_check=False.  The file is a       *)
(* sequence of runs of bytes, each run tagged with the call that wrote it.  *)
(***************************************************************************)
Callers == {1, 2}

\* Lengths of the bodies a download can return
BodyLengths == {MinValidSize, MinValidSize + 1, 2 * MinValidSize}

Run(c, n) == [from |-> c, len |-> n]

RECURSIVE FileLength(_)
FileLength(bytes) ==
    IF bytes = <<>> THEN 0 ELSE Head(bytes).len + FileLength(Tail(bytes))

\* What is left of the bytes after the first k
RECURSIVE DropBytes(_, _)
DropBytes(bytes, k) ==
    IF bytes = <<>> \/ k = 0 THEN bytes
    ELSE IF Head(bytes).len <= k THEN DropBytes(Tail(bytes), k - Head(bytes).len)
    ELSE <<Run(Head(bytes).from, Head(bytes).len - k)>> \o Tail(bytes)

\* Line 433: f.write(content) on a descriptor opened at offset 0 replaces
\* the first n bytes of the file and leaves what lies beyond them
WriteAtStart(bytes, c, n) == <<Run(c, n)>> \o DropBytes(bytes, n)

InitRace ==
    /\ race \in {[pc |-> [c \in Callers |-> "check"],
                  retries |-> r,
                  attempt |-> [c \in Callers |-> 1],
                  posts |-> [c \in Callers |-> 0],
                  body |-> [c \in Callers |-> 0],
                  ret |-> [c \in Callers |-> "none"],
                  exists |-> n > 0,
                  bytes |-> IF n > 0 THEN <<Run(0, n)>> ELSE <<>>,
                  passedCheck |-> {},
                  writes |-> 0,
                  lastWriter |-> 0] :
                 r \in 1..MaxRetries, n \in {0, MinValidSize, MinValidSize + 1}}
    /\ IdleSlide /\ IdleQC /\ IdleOthersBut("race")

\* Lines 363-365: the skip test
RaceCheck ==
    /\ \E c \in Callers :
        /\ race.pc[c] = "check"
        /\ race' = IF race.exists /\ FileLength(race.bytes) > MinValidSize
                   THEN [race EXCEPT !.pc[c] = "done", !.ret[c] = "True"]
                   ELSE [race EXCEPT !.pc[c] = "loop",
                                     !.passedCheck = @ \cup {c}]
    /\ UNCHANGED notRace

\* Lines 404 and 473-474: the retry loop is over
RaceExhausted ==
    /\ \E c \in Callers :
        /\ race.pc[c] = "loop"
        /\ ~InRange(race.attempt[c], race.retries)
        /\ race' = [race EXCEPT !.pc[c] = "done", !.ret[c] = "False"]
    /\ UNCHANGED notRace

\* Lines 407-427: the generation request; it gives a locator or the attempt
\* fails
RacePost ==
    /\ \E c \in Callers, locator \in BOOLEAN :
        /\ race.pc[c] = "loop"
        /\ InRange(race.attempt[c], race.retries)
        /\ race' = [race EXCEPT !.posts[c] = @ + 1,
                                !.pc[c] = IF locator THEN "fetch" ELSE "loop",
                                !.attempt[c] = IF locator THEN @ ELSE @ + 1]
    /\ UNCHANGED notRace

\* Lines 430-431 and 463-465: the download and its test
RaceFetch ==
    /\ \E c \in Callers, n \in BodyLengths :
        /\ race.pc[c] = "fetch"
        /\ race' = IF n > MinValidSize
                   THEN [race EXCEPT !.body[c] = n, !.pc[c] = "open"]
                   ELSE [race EXCEPT !.pc[c] = "loop", !.attempt[c] = @ + 1]
    /\ UNCHANGED notRace

\* Line 432: open(output, "wb") creates the file or truncates it
RaceOpen ==
    /\ \E c \in Callers :
        /\ race.pc[c] = "open"
        /\ race' = [race EXCEPT !.exists = TRUE, !.bytes = <<>>, !.pc[c] = "write"]
    /\ UNCHANGED notRace

\* Lines 433 and 462: the body is written and the call returns True
RaceWrite ==
    /\ \E c \in Callers :
        /\ race.pc[c] = "write"
        /\ race' = [race EXCEPT !.bytes = WriteAtStart(race.bytes, c, race.body[c]),
                                !.writes = @ + 1,
                                !.lastWriter = c,
                                !.pc[c] = "done",
                                !.ret[c] = "True"]
    /\ UNCHANGED notRace

NextRace ==
    \/ RaceCheck
    \/ RaceExhausted
    \/ RacePost
    \/ RaceFetch
    \/ RaceOpen
    \/ RaceWrite
SpecRace == InitRace /\ [][NextRace]_vars

(***************************************************************************)
(* The settings store: settings_init.init_settings, settings_add.add_setting*)
(* and settings_scan.scan_settings on one project directory.  A path is a  *)
(* record of its directory components, the stem of its file name and the   *)
(* extension as characters; "/" as first component marks an absolute path. *)
(***************************************************************************)
MaxImages == 2
MaxCalls == 3

Path(dir, stem, ext) == [dir |-> dir, stem |-> stem, ext |-> ext]

DotPng == <<".", "p", "n", "g">>
HeroDir == <<"settings", "characters", "hero">>

\* The image paths given to add_setting: two spellings of one file,
\* settings/characters/hero/front.png and ./settings/characters/hero/front.png
GivenPaths == {Path(HeroDir, "front", DotPng),
               Path(<<".">> \o HeroDir, "front", DotPng)}

\* settings_init.py lines 22-30: DEFAULT_SETTINGS; an entry that is not in a
\* category is written as NoEntry.  Categories are the categories that hold
\* named entries (settings_init.py line 20 without art_style).
Categories == {"characters", "world", "props"}
EntryNames == {"hero"}
NoEntry == [present |-> FALSE, description |-> "", images |-> <<>>]
DEFAULT_SETTINGS ==
    [art_style |-> [description |-> "", images |-> <<>>],
     entries |-> [c \in Categories |-> [n \in EntryNames |-> NoEntry]]]

\* Python truth of a str-or-None argument
Truthy(v) == v \notin {None, ""}

\* settings_add.py lines 44-46 and 57-59: for img in images: if img not in
\* the list: append
RECURSIVE AppendNewUnchecked(_, _)
AppendNewUnchecked(list, images) ==
    IF images = <<>> THEN list
    ELSE AppendNewUnchecked(Append(list, Head(images)), Tail(images))

RECURSIVE AppendNew(_, _)
AppendNew(list, images) ==
    IF images = <<>> THEN list
    ELSE IF \E k \in 1..Len(list) : list[k] = Head(images)
         THEN AppendNew(list, Tail(images))
         ELSE AppendNew(Append(list, Head(images)), Tail(images))

\* settings_add.py lines 38-60: the settings after the update; called only
\* for art_style or with a name
UpdatedSettings(settings, a) ==
    IF a.category = "art_style"
    THEN [settings EXCEPT
            !.art_style.description =
                IF Truthy(a.description) THEN a.description ELSE @,
            !.art_style.images = AppendNew(@, a.images)]
    ELSE LET old == settings.entries[a.category][a.name]
             entry == IF old.present
                      THEN old
                      ELSE [present |-> TRUE, description |-> "", images |-> <<>>]
         IN [settings EXCEPT
               !.entries[a.category][a.name] =
                   [entry EXCEPT
                      !.description =
                          IF Truthy(a.description) THEN a.description ELSE @,
                      !.images = AppendNew(@, a.images)]]

\* settings_add.py lines 28-65: add_setting on a store; `exists` says whether
\* settings.json is there
AddSettingResult(store, a) ==
    IF ~store.exists THEN [exists |-> FALSE, settings |-> store.settings, ret |-> "False"]
    ELSE IF a.category # "art_style" /\ ~Truthy(a.name)
    THEN [exists |-> TRUE, settings |-> store.settings, ret |-> "False"]
    ELSE [exists |-> TRUE, settings |-> UpdatedSettings(store.settings, a), ret |-> "True"]

\* The arguments of add_setting
ImageLists == UNION {[1..n -> GivenPaths] : n \in 0..MaxImages}
AddArguments ==
    [category : {"art_style"} \cup Categories, name : {None} \cup EntryNames,
     description : {None, "d"}, images : ImageLists]

NoCall == [category |-> None, name |-> None, description |-> None, images |-> <<>>]

BaseDirs == {<<".">>, <<"proj">>, <<".", "proj">>, <<"/", "abs">>}

\* A project directory without settings.json
InitProject ==
    /\ project = [pc |-> "ready", base_dir |-> <<".">>, exists |-> FALSE,
                  settings |-> DEFAULT_SETTINGS, files |-> {},
                  calls |-> 0, last |-> NoCall, ret |-> "none",
                  before |-> [exists |-> FALSE, settings |-> DEFAULT_SETTINGS],
                  unindexed |-> {}]
    /\ IdleSlide /\ IdleQC /\ IdleOthersBut("project")

\* settings_init.py lines 33-51
InitSettings ==
    /\ project.pc = "ready"
    /\ project.calls < MaxCalls
    /\ project' = [project EXCEPT
                     !.exists = TRUE,
                     !.settings = IF project.exists THEN @ ELSE DEFAULT_SETTINGS,
                     !.calls = @ + 1,
                     !.last = NoCall,
                     !.ret = "True",
                     !.before = [exists |-> project.exists,
                                 settings |-> project.settings]]
    /\ UNCHANGED notProject

\* settings_add.py lines 28-65
AddSetting ==
    /\ project.pc = "ready"
    /\ project.calls < MaxCalls
    /\ \E a \in AddArguments :
         LET r == AddSettingResult(project, a) IN
         project' = [project EXCEPT
                       !.exists = r.exists,
                       !.settings = r.settings,
                       !.calls = @ + 1,
                       !.last = a,
                       !.ret = r.ret,
                       !.before = [exists |-> project.exists,
                                   settings |-> project.settings]]
    /\ UNCHANGED notProject

NextSettings ==
    \/ InitSettings
    \/ AddSetting
SpecSettings == InitProject /\ [][NextSettings]_vars

(***************************************************************************)
(* settings_scan.scan_settings (lines 21-89).                              *)
(***************************************************************************)
\* Line 18
IMAGE_EXTS == {<<".">> \o x : x \in ImageExtensions}

\* os.path.normpath on the directory components: "." is dropped and ".."
\* removes the component before it
RECURSIVE NormDir(_, _)
NormDir(rest, done) ==
    IF rest = <<>> THEN done
    ELSE IF Head(rest) = "." THEN NormDir(Tail(rest), done)
    ELSE IF Head(rest) = ".." /\ done # <<>> /\ done[Len(done)] \notin {"..", "/"}
         THEN NormDir(Tail(rest), SubSeq(done, 1, Len(done) - 1))
    ELSE IF Head(rest) = ".." /\ done = <<"/">> THEN NormDir(Tail(rest), done)
    ELSE NormDir(Tail(rest), Append(done, Head(rest)))

NormPath(p) == [p EXCEPT !.dir = NormDir(p.dir, <<>>)]

\* os.path.join(base, p)
JoinPath(base, p) ==
    IF p.dir # <<>> /\ p.dir[1] = "/" THEN p ELSE [p EXCEPT !.dir = base \o @]

\* The files that can lie in the project, written relative to the base
\* directory: two images of the hero, one of them also reachable through
\* "..", a text file, an image of the art style and an image of a prop
DiskFiles == {Path(HeroDir, "front", DotPng),
              Path(HeroDir, "back", <<".", "P", "N", "G">>),
              Path(<<"settings", "characters">>, "notes", <<".", "t", "x", "t">>),
              Path(<<"settings", "art_style">>, "ref", <<".", "j", "p", "g">>),
              Path(<<"settings", "props">>, "sword", <<".", "w", "e", "b", "p">>)}

ScanCategories == {"art_style", "characters", "world", "props"}

\* Lines 31-42: the normalised paths listed in settings.json
IndexedPaths(settings) ==
    {NormPath(settings.art_style.images[k]) : k \in 1..Len(settings.art_style.images)}
    \cup UNION {{NormPath(settings.entries[e[1]][e[2]].images[k]) :
                    k \in 1..Len(settings.entries[e[1]][e[2]].images)} :
                e \in {x \in Categories \X EntryNames :
                          settings.entries[x[1]][x[2]].present}}

\* Lines 47-61: the image files found by os.walk under settings/<cat> of the
\* base directory, each as normpath(join(root, fname))
AllFiles(base, files, cat) ==
    {NormPath(JoinPath(base, f)) :
        f \in {g \in files : /\ Len(g.dir) >= 2
                             /\ SubSeq(g.dir, 1, 2) = <<"settings", cat>>
                             /\ LowerOf(g.ext) \in IMAGE_EXTS}}

\* Lines 63-64
Unindexed(base, files, cat, settings) ==
    {f \in AllFiles(base, files, cat) : f \notin IndexedPaths(settings)}

\* The settings files add_setting can leave behind one call after
\* init_settings
StoresToScan ==
    {[exists |-> FALSE, settings |-> DEFAULT_SETTINGS],
     [exists |-> TRUE, settings |-> DEFAULT_SETTINGS]}
    \cup {[exists |-> TRUE, settings |-> UpdatedSettings(DEFAULT_SETTINGS, a)] :
            a \in {b \in AddArguments : b.category = "art_style" \/ Truthy(b.name)}}

InitScan ==
    /\ project \in {[pc |-> "ready", base_dir |-> b, exists |-> s.exists,
                     settings |-> s.settings, files |-> fs,
                     calls |-> 0, last |-> NoCall, ret |-> "none",
                     before |-> s,
                     unindexed |-> {}] :
                    b \in BaseDirs, s \in StoresToScan, fs \in SUBSET DiskFiles}
    /\ IdleSlide /\ IdleQC /\ IdleOthersBut("project")

\* Lines 21-89: one call of scan_settings(base_dir)
ScanSettings ==
    /\ project.pc = "ready"
    /\ project' = [project EXCEPT
                     !.pc = "scanned",
                     !.ret = IF project.exists THEN "initialized" ELSE "not initialized",
                     !.unindexed =
                         IF project.exists
                         THEN UNION {Unindexed(project.base_dir, project.files, c,
                                               project.settings) : c \in ScanCategories}
                         ELSE {}]
    /\ UNCHANGED notProject

SpecScan == InitScan /\ [][ScanSettings]_vars


(***************************************************************************)
(* Properties of generate_slide, checked under Spec.                       *)
(***************************************************************************)

\* C1 (as stated): a destination that exists and is at least 1000 bytes long
\* makes generate_slide return success with no network call at all.
C1_SkipAtLeastMinimum ==
    (file0.exists /\ file0.size >= MinValidSize)
        => (NetCalls = 0 /\ file = file0 /\ (pc = "done" => result = "True"))

\* C1 (amended): a destination that exists and is longer than 1000 bytes
\* makes generate_slide return success with no network call at all, the file
\* left as it was.
C1_SkipLongerThanMinimum ==
    (file0.exists /\ file0.size > MinValidSize)
        => (NetCalls = 0 /\ file = file0 /\ (pc = "done" => result = "True"))

C1_Witness ==
    /\ pc = "done"
    /\ file0.exists
    /\ file0.size = MinValidSize + 1
    /\ result = "True"
    /\ NetCalls = 0

\* C2: once the retry loop is entered (destination missing or undersized, API
\* key present), a call in which no attempt returns success sends exactly
\* `retries` generation requests, one per attempt, and returns failure; while
\* the loop runs the attempts that failed so far each sent one request.
C2_ExactlyRetriesRequests ==
    /\ (pc = "loop" => (attempt >= 1 /\ genPosts = attempt - 1))
    /\ (pc = "download" => genPosts = attempt)
    /\ (pc = "done" /\ attempt >= 1 /\ result # "True")
          => (genPosts = retries /\ result = "False" /\ ~AlreadyGenerated(file0) /\ api_key)

C2_Witness ==
    /\ pc = "done"
    /\ result = "False"
    /\ retries >= 2
    /\ genPosts = retries
    /\ downloads >= 1
    /\ lastGood = NoFile

\* C3 (as stated): generate_slide never propagates an exception; every call
\* ends by returning True or False.
C3_NeverRaises == result # "raised"

\* C4 (as stated): at return of a call that sent a generation request, the
\* output path holds the most recent successful download if there was one,
\* and does not exist if the initial generation never succeeded.
C4_AbsentWithoutSuccess ==
    (pc = "done" /\ genPosts >= 1)
        => /\ (lastGood # NoFile => file = lastGood)
           /\ (lastGood = NoFile => ~file.exists)

\* C4 (amended): at every moment of the call, and so at return, the output
\* path holds the most recent successful download if any download succeeded,
\* and otherwise is exactly what it was before the call (absent, or the file
\* that was already there); nothing is ever removed or replaced by an
\* undersized payload.
C4_KeepsLatestArtifact ==
    /\ (lastGood # NoFile => (file = lastGood /\ file.size > MinValidSize))
    /\ (lastGood = NoFile => file = file0)

C4_Witness ==
    /\ pc = "done"
    /\ refined = "True"
    /\ file = lastGood
    /\ file.id >= 2
    /\ file0.exists
    /\ file0.size < MinValidSize

\* C5: with quality checking enabled, when every evaluation of the refine
\* loop answers FAIL and every refinement succeeds, the loop makes exactly
\* max_refine rounds, each one evaluation followed by one refinement request,
\* then generate_slide returns success with the last downloaded artifact at
\* the output path.
AlwaysFailAlwaysRefined ==
    /\ quality_check
    /\ lastGood # NoFile
    /\ result = "True"
    /\ passed # "True"
    /\ (passed = "False" => refined = "True")

C5_ExactlyMaxRefineRounds ==
    /\ (pc = "check" => (evals = qc_round /\ refines = qc_round))
    /\ (pc = "refine" => (evals = qc_round + 1 /\ refines = qc_round))
    /\ (pc = "refine_download" => (evals = qc_round + 1 /\ refines = qc_round + 1))
    /\ (pc = "done" /\ AlwaysFailAlwaysRefined)
          => /\ evals = max_refine
             /\ refines = max_refine
             /\ qc_round = max_refine
             /\ file = lastGood
             /\ (max_refine >= 1 => file.id = downloads)

C5_Witness ==
    /\ pc = "done"
    /\ AlwaysFailAlwaysRefined
    /\ max_refine >= 2
    /\ evals = max_refine
    /\ refines = max_refine

\* C6 (as stated): once an attempt has downloaded and written a valid
\* artifact, no further generation request is sent, no further attempt is
\* used, and the call returns success, whatever happens in the quality check
\* and the refinement.
C6_NoFurtherAttempt ==
    lastGood # NoFile
        => /\ pc \notin {"loop", "download"}
           /\ (pc = "done" => result = "True")

\* C10: when a refinement fails (status other than 200, no locator, failed
\* or undersized download, exception), that step ends the call: the file at
\* the output path is unchanged, no evaluation or generation request is
\* sent, generate_slide returns True, and nothing runs after the return.
C10_RefineFailureStops ==
    [][/\ (pc \in {"refine", "refine_download"} /\ refined' = "False")
            => /\ file' = file
               /\ pc' = "done"
               /\ result' = "True"
               /\ qcPosts' = qcPosts
               /\ genPosts' = genPosts
               /\ attempt' = attempt
       /\ pc # "done"]_vars

C10_Witness ==
    /\ pc = "done"
    /\ refined = "False"
    /\ result = "True"
    /\ refinePosts >= 1
    /\ downloads >= 2
    /\ file = lastGood

(***************************************************************************)
(* Properties of _quality_check, checked under SpecQC.                     *)
(***************************************************************************)
Returned == qcpc = "returned"

\* The evaluation request failed in transport: an exception, or a status
\* other than 200
Unreachable(r) == r.kind # "response" \/ r.status # StatusOk

\* The first four characters of the stripped text spell `word`, ignoring case
LeadingWord(text, word) ==
    LET t == Strip(text) IN
    /\ Len(t) >= 4
    /\ \A i \in 1..4 : t[i] = word[i] \/ t[i] = LowerChar(word[i])

\* The first token of a text: its characters from the first that is no
\* white space up to the next white space
FirstToken(text) ==
    LET t == Strip(text) IN
    IF t = <<>> THEN <<>> ELSE SubSeq(t, 1, RunEnd(t, 1, Whitespace))

\* The two shapes of a verdict: the first token is exactly PASS, or the text
\* begins with FAIL: and goes on with the reason
IsVerdict(text) ==
    \/ FirstToken(text) = PASS
    \/ StartsWith(Strip(text), FAIL \o <<":">>)

\* A reply with status 200 that is not a verdict: not JSON, fields missing,
\* empty text, or a text of any other shape than the two verdicts (FAILURE,
\* Failed, fail and PASSABLE are such texts)
Malformed(r) ==
    /\ r.kind = "response"
    /\ r.status = StatusOk
    /\ (r.shape # "text" \/ ~IsVerdict(r.text))

\* C7 as claimed: the quality gate is fail-open: an evaluation request that
\* raises, times out or returns a status other than 200, or a malformed
\* reply (missing fields, empty text, text that is neither PASS nor FAIL),
\* yields passed = True.
C7_FailOpen ==
    (Returned /\ (Unreachable(qcReply) \/ Malformed(qcReply))) => qcVerdict.passed

\* C7: an evaluation request that raises, times out or returns a status
\* other than 200, and a malformed reply (missing fields, empty text, a text
\* of another shape than PASS and FAIL: reason), yield passed = True, except
\* a malformed text that begins with the letters F, A, I, L in any letter
\* case once stripped, which yields passed = False.
C7_FailOpenExceptFailPrefix ==
    (Returned /\ (Unreachable(qcReply) \/ Malformed(qcReply))) =>
        (qcVerdict.passed <=>
            ~(/\ qcReply.kind = "response"
              /\ qcReply.status = StatusOk
              /\ qcReply.shape = "text"
              /\ LeadingWord(qcReply.text, FAIL)))

\* A malformed reply that begins with FAIL without being a verdict
C7_FailureIsNotPassed ==
    /\ Returned
    /\ Malformed(qcReply)
    /\ qcReply.shape = "text"
    /\ qcReply.text = FAIL \o <<"U", "R", "E">>
    /\ ~qcVerdict.passed

C7_Witness ==
    /\ Returned
    /\ qcReply.kind = "response"
    /\ qcReply.status = StatusOk
    /\ qcReply.shape = "empty_choices"
    /\ qcVerdict.passed

TextReply(r) == r.kind = "response" /\ r.status = StatusOk /\ r.shape = "text"

\* C8 (as stated): passed = False only for a reply that begins with exactly
\* `FAIL:`; every other text is a pass.
C8_FailOnlyOnExactToken ==
    (Returned /\ TextReply(qcReply) /\ ~qcVerdict.passed)
        => StartsWith(Strip(qcReply.text), FAIL \o <<":">>)

\* C8 (amended): for a text reply, passed = False exactly when the text,
\* stripped of surrounding whitespace, begins with the letters F, A, I, L in
\* any letter case; every other text passes.
C8_FailOnAnyFailPrefix ==
    (Returned /\ TextReply(qcReply))
        => (qcVerdict.passed <=> ~LeadingWord(qcReply.text, FAIL))

C8_Witness ==
    /\ Returned
    /\ TextReply(qcReply)
    /\ qcReply.text = <<"F", "a", "i", "l", "e", "d">>
    /\ ~qcVerdict.passed

\* C9 (as stated): every transport failure of the evaluation request gives
\* the reason "check unavailable".
C9_AlwaysCheckUnavailable ==
    (Returned /\ Unreachable(qcReply)) => qcVerdict.reason = CheckUnavailable

\* C9 (amended): a status other than 200 gives a pass with the reason "check
\* unavailable"; a timeout, a connection error or any other exception gives
\* a pass whose reason is the text of the exception.
C9_ReasonByFailureKind ==
    Returned =>
        /\ (qcReply.kind = "response" /\ qcReply.status # StatusOk)
              => qcVerdict = Verdict(TRUE, CheckUnavailable)
        /\ qcReply.kind # "response" => qcVerdict = Verdict(TRUE, qcReply.msg)

C9_Witness ==
    /\ Returned
    /\ qcReply.kind = "response"
    /\ qcReply.status = StatusError
    /\ qcVerdict.reason = CheckUnavailable

(***************************************************************************)
(* Properties of the two pipelines, checked under SpecCalls.               *)
(***************************************************************************)

SlideWithoutKey ==
    pc # "idle" /\ ~api_key /\ ~AlreadyGenerated(file0)
ReferenceWithoutKey ==
    refcall.pc # "idle" /\ ~refcall.api_key

\* C11: without an API key, and with the destination missing or undersized,
\* generate_slide and generate_reference fail at once: no network call, no
\* attempt of the retry budget, nothing written to the output path.
C11_NoKeyFailsAtOnce ==
    /\ SlideWithoutKey =>
         /\ pc \in {"start", "done"}
         /\ pc = "done" => result = "False"
         /\ NetCalls = 0
         /\ attempt = 0
         /\ file = file0
    /\ ReferenceWithoutKey =>
         /\ refcall.pc \in {"start", "done"}
         /\ refcall.pc = "done" => refcall.result = "False"
         /\ refcall.posts = 0 /\ refcall.gets = 0
         /\ refcall.attempt = 0
         /\ refcall.file = refcall.file0

C11_Witness ==
    /\ SlideWithoutKey
    /\ file0.exists /\ file0.size = MinValidSize
    /\ retries > 0
    /\ pc = "done" /\ result = "False"

NoExistingPath(paths) == \A i \in 1..Len(paths) : paths[i] = "missing"

\* C15: once the request is composed, its content is the plain prompt text
\* exactly when no reference images were given or none of the given paths
\* exists, and the ordered pair [reference sheet, prompt text] otherwise
\* (generate_slide and generate_reference alike).
C15_PlainTextIffNoSheet ==
    /\ attempt >= 1 =>
         msg_content = IF NoExistingPath(reference_images)
                       THEN [kind |-> "str", parts |-> <<"prompt">>]
                       ELSE [kind |-> "list", parts |-> <<"sheet", "prompt">>]
    /\ (refcall.pc # "idle" /\ refcall.attempt >= 1) =>
         refcall.msg_content = IF NoExistingPath(refcall.reference_images)
                               THEN [kind |-> "str", parts |-> <<"prompt">>]
                               ELSE [kind |-> "list", parts |-> <<"sheet", "prompt">>]

C15_Witness ==
    /\ reference_images = MissingThenValid
    /\ genPosts >= 1
    /\ msg_content.kind = "list"

(***************************************************************************)
(* Properties of the download test, checked under SpecDownload.            *)
(***************************************************************************)

\* C12: at each of the three places a download is a failure exactly when
\* its status is not 200 or its payload is shorter than 1000 bytes, and is
\* written otherwise.
C12_SameRuleEverywhere ==
    dltest.pc = "done" =>
        (dltest.effect = "failure"
            <=> (dltest.img_resp.status # StatusOk
                 \/ dltest.img_resp.size < MinValidSize))

(***************************************************************************)
(* Further properties of generate_slide, checked under Spec.               *)
(***************************************************************************)

\* C13: a call of generate_slide ends with result True and a usable artifact
\* at the output path, or with result False, and sends at most `retries`
\* initial generation requests.
C13_EndsWithArtifactOrFalse ==
    /\ genPosts <= retries
    /\ pc = "done" =>
         \/ result = "True" /\ file.exists /\ file.size > MinValidSize
         \/ result = "False"

(***************************************************************************)
(* Properties of locator extraction, checked under SpecExtraction.         *)
(***************************************************************************)

\* The first piece, in text order, in which the given pattern finds a URL
FirstWith(ps, pattern) ==
    LET hits == {i \in 1..Len(ps) : ps[i][pattern] # NoLocator} IN
    IF hits = {} THEN NoLocator
    ELSE ps[CHOOSE i \in hits : \A j \in hits : i <= j][pattern]

\* C14: the URL of the first markdown image reference is the locator, even
\* when a bare image URL stands earlier in the text; without any markdown
\* image reference the first bare URL ending in an image extension, in any
\* letter case, is the locator; with neither there is no locator and the
\* attempt is a retryable failure.
C14_MarkdownThenBareUrl ==
    extraction.pc = "done" =>
        LET ps == extraction.pieces IN
        /\ extraction.url_match =
              IF FirstWith(ps, "md") # NoLocator THEN FirstWith(ps, "md")
              ELSE FirstWith(ps, "bare")
        /\ extraction.outcome =
              IF FirstWith(ps, "md") = NoLocator /\ FirstWith(ps, "bare") = NoLocator
              THEN "retry" ELSE "download"

C14_Witness ==
    /\ extraction.pc = "done"
    /\ extraction.pieces = <<UpperCaseBare, MarkdownImage, JpegBare>>
    /\ extraction.url_match = MarkdownImage.md

(***************************************************************************)
(* Properties of the reference-sheet builders, checked under SpecSheet.    *)
(***************************************************************************)

Existing(paths) == {i \in 1..Len(paths) : paths[i].kind # "missing"}
Unreadable(paths) == {i \in 1..Len(paths) : paths[i].kind = "corrupt"}

\* The pasted image lies inside the cell at (row, col) of the grid
InsideCell(c, row, col, cell_size) ==
    /\ col * cell_size <= c.x /\ c.x + c.w <= (col + 1) * cell_size
    /\ row * cell_size <= c.y /\ c.y + c.h <= (row + 1) * cell_size

\* C16: for n >= 2 images the sheet is a grid of min(n, 3) columns and
\* ceil(n / columns) rows on a canvas of columns*cell_size by rows*cell_size
\* pixels, and the i-th image (from 0, in input order) lies in the cell of
\* row i div columns and column i mod columns.
C16_GridLayout ==
    sheet.pc = "done" =>
        LET n == Cardinality(Existing(sheet.paths))
            r == sheet.result
        IN (n >= 2 /\ r.kind # "raised") =>
             /\ r.kind = "grid"
             /\ r.cols = IF n < 3 THEN n ELSE 3
             /\ r.rows * r.cols >= n /\ (r.rows - 1) * r.cols < n
             /\ r.w = r.cols * sheet.cell_size
             /\ r.h = r.rows * sheet.cell_size
             /\ Len(r.cells) = n
             /\ \A k \in 1..n :
                  /\ r.cells[k].source \in Existing(sheet.paths)
                  /\ \A j \in 1..(k - 1) : r.cells[j].source < r.cells[k].source
                  /\ \E row \in 0..(r.rows - 1), col \in 0..(r.cols - 1) :
                       /\ row * r.cols + col = k - 1
                       /\ InsideCell(r.cells[k], row, col, sheet.cell_size)

C16_Witness ==
    /\ sheet.pc = "done"
    /\ sheet.result.kind = "grid"
    /\ sheet.result.cols = 3 /\ sheet.result.rows = 2
    /\ sheet.paths[4] = Picture(300, 900)

\* C17: with exactly one image left no grid is built, and the longest side
\* of the output equals the cell size, with the proportions of the source
\* (up to the rounding of one pixel), whatever the size of the source.
C17_SingleImageFillsCell ==
    sheet.pc = "done" =>
        LET r == sheet.result IN
        (Cardinality(Existing(sheet.paths)) = 1 /\ r.kind # "raised") =>
            LET src == sheet.paths[CHOOSE i \in Existing(sheet.paths) : TRUE] IN
            /\ r.kind = "single"
            /\ Larger(r.w, r.h) = sheet.cell_size
            /\ r.w * src.h - r.h * src.w < Larger(src.w, src.h)
            /\ r.h * src.w - r.w * src.h < Larger(src.w, src.h)

\* C18 as claimed: the builder returns None exactly when none of the given
\* paths exists.
C18_NoneIffNoPathExists ==
    sheet.pc = "done" =>
        (sheet.result.kind = "None" <=> Existing(sheet.paths) = {})

\* C18: with Pillow available the builder returns None exactly when none of
\* the given paths exists, missing paths are dropped without raising and the
\* sheet holds the remaining images in input order; it raises exactly when
\* Pillow is missing or an existing file is no image.
C18_NoneIffNoPathExistsWithPillow ==
    sheet.pc = "done" =>
        LET r == sheet.result IN
        /\ r.kind = "raised" <=> (~sheet.pillow \/ Unreadable(sheet.paths) # {})
        /\ r.kind = "None" <=> (sheet.pillow /\ Existing(sheet.paths) = {})
        /\ r.kind \in {"single", "grid"} =>
             /\ {r.cells[k].source : k \in 1..Len(r.cells)} = Existing(sheet.paths)
             /\ \A j, k \in 1..Len(r.cells) :
                  j < k => r.cells[j].source < r.cells[k].source

C18_Witness ==
    /\ sheet.pc = "done"
    /\ sheet.builder = "_concatenate_reference_images"
    /\ Len(sheet.paths) = 3
    /\ sheet.paths[2] = MissingPath
    /\ sheet.result.kind = "grid"
    /\ sheet.result.cells[2].source = 3

(***************************************************************************)
(* Properties of _sanitize_label, checked under SpecLabel.                 *)
(***************************************************************************)

AsciiOf(text) == SelectSeq(text, LAMBDA ch : ch \notin NonAsciiChars)
\* The positions of a text that hold a character other than white space
Inked(text) == {i \in 1..Len(text) : text[i] \notin Whitespace}
\* The text from its first to its last character that is no white space
Trimmed(text) ==
    IF Inked(text) = {} THEN <<>>
    ELSE SubSeq(text, CHOOSE i \in Inked(text) : \A j \in Inked(text) : i <= j,
                      CHOOSE i \in Inked(text) : \A j \in Inked(text) : i >= j)

\* C19 as claimed: without a CJK font a label of non-ASCII characters only
\* is returned unchanged and any other label is returned with exactly its
\* non-ASCII characters removed; with a CJK font the label is unchanged;
\* the result is never empty.
C19_RemovesOnlyNonAscii ==
    (label.pc = "done" /\ label.text # <<>>) =>
        /\ label.result # <<>>
        /\ label.cjk_supported => label.result = label.text
        /\ ~label.cjk_supported =>
             label.result = IF AsciiOf(label.text) = <<>> THEN label.text
                            ELSE AsciiOf(label.text)

\* C19: without a CJK font the result is the ASCII characters of the label
\* with leading and trailing white space stripped, unless that leaves
\* nothing, and then the label is returned unchanged; with a CJK font the
\* label is unchanged; a non-empty label never becomes empty.
C19_KeepsTrimmedAsciiOrLabel ==
    (label.pc = "done" /\ label.text # <<>>) =>
        /\ label.result # <<>>
        /\ label.cjk_supported => label.result = label.text
        /\ ~label.cjk_supported =>
             label.result = IF Trimmed(AsciiOf(label.text)) = <<>> THEN label.text
                            ELSE Trimmed(AsciiOf(label.text))

C19_Witness ==
    /\ label.pc = "done"
    /\ ~label.cjk_supported
    /\ label.text = <<"U+4E2D", " ", "a">>
    /\ label.result = <<"a">>

(***************************************************************************)
(* Properties of run_deck, checked under SpecDeck.                         *)
(***************************************************************************)

SlidesOf(d) == 1..Len(d.plan)
\* The names of the plan whose file is there and longer than the minimum
Available(d) ==
    {d.plan[i].filename :
        i \in {j \in SlidesOf(d) : /\ d.plan[j].filename \in Filenames
                                  /\ d.disk[d.plan[j].filename] > MinValidSize}}

\* run_deck has returned or raised
Ended(d) == d.pc \in {"done", "aborted"}
\* Every entry of the plan has a "filename" key
AllNamed(d) == \A i \in SlidesOf(d) : d.plan[i].filename # None
\* No entry before entry i lacks its "filename" key
Submitted(d, i) == \A j \in 1..(i - 1) : d.plan[j].filename # None

\* C20: a slide that fails, by returning False or by raising in its worker,
\* does not abort the batch: when run_deck ends every slide of the plan has
\* been generated once, a raising slide was recorded as failed, run_deck
\* itself returned, and the PDF was assembled from the slides available.
C20_FailureDoesNotAbortBatch ==
    (Ended(deck) /\ deck.plan # <<>>) =>
        /\ \A i \in SlidesOf(deck) :
             /\ deck.calls[i] = 1
             /\ deck.outcome[i] \in {"True", "False", "raised"}
             /\ deck.recorded[i] = IF deck.outcome[i] = "True" THEN "True" ELSE "False"
        /\ deck.ret \in {"True", "False"}
        /\ IF Available(deck) = {}
           THEN deck.pdf = "none" /\ deck.ret = "False"
           ELSE /\ deck.pdf \in {"written", "failed"}
                /\ {deck.slide_files[k] : k \in 1..Len(deck.slide_files)} = Available(deck)

\* The batch is not aborted when every entry of the plan names its file:
\* the statement of C20 for the plans in which no "filename" key is missing
C20_NamedEntriesDoNotAbortBatch ==
    AllNamed(deck) => C20_FailureDoesNotAbortBatch

\* A slide raised, one returned False and one succeeded; all were recorded
\* and the PDF was written
C20_Witness ==
    /\ deck.pc = "done"
    /\ Len(deck.plan) = 3
    /\ deck.outcome[1] = "raised"
    /\ deck.outcome[2] = "False"
    /\ deck.outcome[3] = "True"
    /\ deck.recorded[1] = "False"
    /\ deck.pdf = "written"

\* The second entry has no filename: its worker raised, run_deck raised, the
\* third slide was never generated and nothing was recorded or assembled
C20_BatchAborted ==
    /\ deck.pc = "aborted"
    /\ Len(deck.plan) = 3
    /\ deck.plan[2].filename = None
    /\ deck.outcome[2] = "raised"
    /\ deck.calls = <<1, 1, 0>>
    /\ deck.recorded = <<"none", "none", "none">>
    /\ deck.ret = "raised"
    /\ deck.pdf = "none"

\* The slides whose generate_slide call is in progress
InProgress(d) == {i \in SlidesOf(d) : d.task[i] \in {"skipping", "generating", "opened", "written"}}

\* C21 as claimed: generate_slide is invoked exactly once for each slide
\* entry of the plan, and never more than `workers` calls are in progress.
C21_OncePerEntry ==
    /\ Cardinality(InProgress(deck)) <= deck.workers
    /\ (Ended(deck) /\ deck.plan # <<>>) =>
         \A i \in SlidesOf(deck) : deck.invoked[i] = 1

\* C21: the entries are submitted in plan order, one task each, up to and
\* including the first entry without filename, where run_deck raises; the
\* entries after it are never submitted.  A submitted task invokes
\* generate_slide exactly once unless its entry lacks the filename or the
\* prompt, in which case the task raises before the call; never more than
\* `workers` tasks, and so never more than `workers` calls, are in progress.
C21_OncePerSubmittedCompleteEntry ==
    /\ Cardinality(InProgress(deck)) <= deck.workers
    /\ Cardinality({i \in SlidesOf(deck) : deck.task[i] \in HeldStatuses}) <= deck.workers
    /\ \A i \in SlidesOf(deck) :
         /\ deck.calls[i] <= 1 /\ deck.invoked[i] <= deck.calls[i]
         /\ deck.task[i] # "unsubmitted" => Submitted(deck, i)
    /\ (Ended(deck) /\ deck.plan # <<>>) =>
         /\ deck.pc = "aborted" <=> ~AllNamed(deck)
         /\ \A i \in SlidesOf(deck) :
               /\ deck.calls[i] = IF Submitted(deck, i) THEN 1 ELSE 0
               /\ deck.invoked[i] =
                     IF Submitted(deck, i) /\ deck.plan[i].filename # None
                                          /\ deck.plan[i].prompt
                     THEN 1 ELSE 0

C21_Witness ==
    /\ deck.pc = "collect"
    /\ Len(deck.plan) = 3
    /\ deck.workers = 2
    /\ Cardinality(InProgress(deck)) = 2
    /\ deck.task[3] = "queued"
    /\ deck.plan[3].prompt

(***************************************************************************)
(* Properties of two concurrent generate_slide calls, checked under        *)
(* SpecRace.                                                               *)
(***************************************************************************)
RaceOver == \A c \in Callers : race.pc[c] = "done"

\* C22: when two concurrent generate_slide calls target one output path and
\* no lock serialises them, then once both have returned the file holds
\* exactly the body of the call that wrote last.
C22_LastWriterWins ==
    (race # Idle /\ RaceOver /\ race.lastWriter # 0) =>
        race.bytes = <<Run(race.lastWriter, race.body[race.lastWriter])>>

\* Both calls passed the skip test before either wrote, and both sent a
\* generation request
C22_BothPassAndRequest ==
    /\ race # Idle
    /\ race.passedCheck = Callers
    /\ \A c \in Callers : race.posts[c] >= 1
    /\ race.writes = 0

\* Both calls have returned and the file mixes the bytes of the two bodies
C22_TornFile ==
    /\ race # Idle
    /\ RaceOver
    /\ Len(race.bytes) = 2

(***************************************************************************)
(* Properties of the retry loop of generate_slide, checked under SpecRetry.*)
(***************************************************************************)
FailedAttempts == IF attempt = 0 THEN 0 ELSE attempt - 1

\* The delay the failure class calls for
DelayOfClass(class) ==
    IF class \in {"status", "timeout"} THEN 5 ELSE 3

\* C23: each failed attempt is followed by exactly one delay, which depends
\* only on the failure class and not on the attempt index: 5 s after a
\* non-200 status of the generation request or a network timeout, 3 s after
\* a missing locator, a failed download or any other exception.
C23_OneDelayPerFailureClass ==
    failure # Idle =>
        /\ Len(failure.sleeps) = FailedAttempts
        /\ failure.attempts = [i \in 1..FailedAttempts |-> i]
        /\ failure.class # "none" =>
             /\ failure.sleeps # <<>>
             /\ failure.sleeps[Len(failure.sleeps)] = DelayOfClass(failure.class)
             /\ lastSleep = DelayOfClass(failure.class)
        /\ failure.class \in {"none", "status", "timeout", "no_locator",
                              "download", "exception"}

\* A call whose first attempt failed on a timeout and whose second attempt
\* failed on a download, each followed by its own delay
C23_Witness ==
    /\ failure # Idle
    /\ failure.sleeps = <<5, 3>>
    /\ failure.class = "download"
    /\ pc = "done"
    /\ result = "False"

(***************************************************************************)
(* Properties of the refinement rounds of generate_slide, checked under    *)
(* Spec.                                                                   *)
(***************************************************************************)
\* C24: each refinement round sends exactly one generation request, with no
\* retry inside the round, and the content of that request is, in order, the
\* reference sheet (only if the original request carried one), the current
\* flawed artifact, and a text with the failure reason and the original prompt.
C24_OneRequestPerRound ==
    [][refinePosts' # refinePosts =>
          /\ refinePosts' = refinePosts + 1
          /\ pc = "refine" /\ pc' \in {"refine_download", "done"}
          /\ passed = "False"
          /\ refines' = qc_round + 1
          /\ content_parts' =
                (IF msg_content = SheetAndText THEN <<SheetPart>> ELSE <<>>)
                    \o <<ArtifactPart(file), TextPart(reason)>>]_vars

\* The second refinement round of a call with a reference sheet has sent its
\* request: sheet, artifact, text
C24_Witness ==
    /\ refinePosts = 2
    /\ refines = 2
    /\ qc_round = 1
    /\ msg_content = SheetAndText
    /\ Len(content_parts) = 3
    /\ content_parts[2].id = file.id
    /\ content_parts[3].reason = reason
    /\ reason # EmptyText

\* C25: within one generate_slide call every attempt of the retry loop sends
\* the identical request body: the body composed before the first attempt
\* from the reference sheet, the prompt and the model, which no failed
\* attempt changes.
C25_SameBodyEveryAttempt ==
    /\ genPosts >= 1 =>
         bodies = {[model |-> "model", role |-> "user", content |-> msg_content,
                    modalities |-> <<"image", "text">>]}
    /\ genPosts = 0 => bodies = {}
    /\ attempt >= 1 => msg_content = MessageContent(reference_images)

\* Two attempts have sent their request, the second after the first failed
C25_Witness ==
    /\ genPosts = 2
    /\ attempt = 2
    /\ lastSleep # 0
    /\ msg_content = SheetAndText
    /\ Cardinality(bodies) = 1

\* C26: whenever generate_slide returns True (by the skip, by an initial
\* download or after refinement) the file at the output path exists and is
\* longer than 1000 bytes, and the call never writes a payload of 1000 bytes
\* or fewer to the output path.
C26_TrueMeansValidFile ==
    [][/\ result' = "True" => file'.exists /\ file'.size > 1000
       /\ file' # file => file'.exists /\ file'.size > 1000]_vars

\* The call returned True after a refinement that replaced the artifact
C26_Witness ==
    /\ result = "True"
    /\ refined = "True"
    /\ file0 = NoFile
    /\ file.exists
    /\ file.size = 1001
    /\ file.id = downloads
    /\ downloads >= 2

\* The entries of the plan whose file exists and is longer than 1000 bytes
ValidEntries(d) == {i \in 1..Len(d.plan) : d.disk[d.plan[i].filename] > 1000}

\* C27: for the PDF run_deck collects the slide files in the order of the
\* plan, not in the order the workers completed, and includes a slide only
\* if its file exists and is longer than 1000 bytes; it returns False without
\* assembling a PDF when the plan has no slides or when no such file exists.
C27_PdfInPlanOrder ==
    (deck # Idle /\ deck.pc = "done") =>
        IF deck.plan = <<>> \/ ValidEntries(deck) = {}
        THEN deck.ret = "False" /\ deck.pdf = "none" /\ deck.slide_files = <<>>
        ELSE /\ deck.pdf # "none"
             /\ Len(deck.slide_files) = Cardinality(ValidEntries(deck))
             /\ \A i \in ValidEntries(deck) :
                  deck.slide_files[Cardinality({j \in ValidEntries(deck) : j <= i})]
                      = deck.plan[i].filename

\* The second slide completed before the first one, both files are valid and
\* the PDF was assembled from a.png then b.png
C27_Witness ==
    /\ deck # Idle
    /\ deck.pc = "done"
    /\ Len(deck.plan) >= 2
    /\ deck.order[1] = 2
    /\ deck.plan[1].filename = "a.png"
    /\ deck.plan[2].filename = "b.png"
    /\ deck.slide_files = <<"a.png", "b.png">>
    /\ deck.pdf = "written"

\* C28: the skip test precedes the credential test: when the destination
\* already holds a file longer than 1000 bytes, generate_slide returns
\* success even if no API key is available.
C28_SkipBeforeCredential ==
    (pc = "done" /\ file0.exists /\ file0.size > 1000) =>
        /\ result = "True"
        /\ NetCalls = 0
        /\ file = file0

\* A call without an API key returned True on an existing file
C28_Witness ==
    /\ pc = "done"
    /\ ~api_key
    /\ file0.exists
    /\ file0.size = 1001
    /\ result = "True"

\* C29: labels stay paired with their images when missing files are dropped:
\* for every surviving image, the label drawn in its cell is the label given
\* at that image's original index in the input list, or no label when the
\* label list is shorter, whichever paths are missing.
C29_LabelsFollowImages ==
    (sheet # Idle /\ sheet.pc = "done" /\ sheet.result.kind \in {"single", "grid"}) =>
        /\ Len(sheet.result.cells) = Cardinality(Existing(sheet.paths))
        /\ \A k \in 1..Len(sheet.result.cells) :
             LET c == sheet.result.cells[k] IN
             /\ c.source \in Existing(sheet.paths)
             /\ Cardinality({j \in Existing(sheet.paths) : j <= c.source}) = k
             /\ c.label = IF c.source <= Len(sheet.labels)
                          THEN sheet.labels[c.source]
                          ELSE 0

\* The first path is missing, every path has a label, and the first cell of
\* the grid shows the second image under the second label
C29_Witness ==
    /\ sheet # Idle
    /\ sheet.pc = "done"
    /\ sheet.result.kind = "grid"
    /\ sheet.paths[1] = MissingPath
    /\ Len(sheet.labels) = Len(sheet.paths)
    /\ sheet.result.cells[1].source = 2
    /\ sheet.result.cells[1].label = 2

\* The filenames named by the plan
PlanFilenames(d) == {d.plan[i].filename : i \in SlidesOf(d)}

\* C30 as claimed: after the generation phase of run_deck every slide entry
\* of the plan has exactly one recorded outcome, so the reported succeeded
\* count plus failed count equals the number of slides in the plan.
C30_CountsAddUpToSlides ==
    (deck # Idle /\ deck.pc = "done" /\ deck.plan # <<>>) =>
        /\ \A i \in SlidesOf(deck) : deck.recorded[i] \in {"True", "False"}
        /\ deck.succeeded + deck.failed = Len(deck.plan)

\* C30: after the generation phase every slide entry has been collected
\* exactly once, and the outcomes are recorded per filename (a later entry
\* with the same filename replaces the earlier record), so succeeded plus
\* failed equals the number of distinct filenames of the plan, which is the
\* number of slides when the filenames are distinct.
C30_CountsAddUpToFilenames ==
    (deck # Idle /\ deck.pc = "done" /\ deck.plan # <<>>) =>
        /\ \A i \in SlidesOf(deck) :
             /\ deck.recorded[i] \in {"True", "False"}
             /\ Cardinality({k \in 1..Len(deck.order) : deck.order[k] = i}) = 1
        /\ Len(deck.order) = Len(deck.plan)
        /\ \A f \in PlanFilenames(deck) :
             \E k \in 1..Len(deck.order) :
                /\ deck.plan[deck.order[k]].filename = f
                /\ \A m \in (k + 1)..Len(deck.order) :
                      deck.plan[deck.order[m]].filename # f
                /\ deck.results[f] = deck.recorded[deck.order[k]]
        /\ deck.succeeded + deck.failed = Cardinality(PlanFilenames(deck))
        /\ (Cardinality(PlanFilenames(deck)) = Len(deck.plan)) =>
              deck.succeeded + deck.failed = Len(deck.plan)

\* Two entries name the same file, one succeeded and one failed, and the
\* report counts one outcome for them; another plan with distinct names is
\* counted entry by entry
C30_Witness ==
    /\ deck # Idle
    /\ deck.pc = "done"
    /\ Len(deck.plan) = 2
    /\ deck.plan[1].filename = deck.plan[2].filename
    /\ deck.recorded[1] = "True"
    /\ deck.recorded[2] = "False"
    /\ deck.succeeded + deck.failed = 1

(***************************************************************************)
(* Properties of the settings store, checked under SpecSettings.           *)
(***************************************************************************)
\* The image lists of a settings.json
ImageListsOf(settings) ==
    {settings.art_style.images}
    \cup {settings.entries[c][n].images : c \in Categories, n \in EntryNames}

NoDuplicates(list) ==
    \A i, j \in 1..Len(list) : list[i] = list[j] => i = j

\* C31: after any sequence of add_setting calls no image list of
\* settings.json contains the same path (the same string) twice; repeating a
\* call with the same arguments leaves settings.json unchanged; and a call
\* that fails because settings.json is missing, or because a category other
\* than art_style was given no name, returns False and neither modifies nor
\* creates settings.json.
C31_AddSettingIdempotent ==
    project # Idle =>
        /\ \A list \in ImageListsOf(project.settings) : NoDuplicates(list)
        /\ project.last # NoCall =>
             /\ AddSettingResult(project, project.last).settings = project.settings
             /\ AddSettingResult(project, project.last).exists = project.exists
             /\ AddSettingResult(project, project.last).ret = project.ret
             /\ (~project.before.exists
                     \/ (project.last.category # "art_style"
                            /\ project.last.name = None)) =>
                  /\ project.ret = "False"
                  /\ project.exists = project.before.exists
                  /\ project.settings = project.before.settings
             /\ project.ret = "False" =>
                  /\ project.exists = project.before.exists
                  /\ project.settings = project.before.settings

\* A third call added a path to a list that already held another, after a
\* call that named a path twice
C31_Witness ==
    /\ project # Idle
    /\ project.calls = 3
    /\ project.ret = "True"
    /\ Len(project.settings.entries["characters"]["hero"].images) = 2
    /\ Len(project.last.images) = 2
    /\ project.last.images[1] = project.last.images[2]
    /\ project.before.settings # project.settings

(***************************************************************************)
(* Properties of scan_settings, checked under SpecScan.                    *)
(***************************************************************************)
\* The paths listed in settings.json, as given
ListedPaths(settings) ==
    UNION {{list[k] : k \in 1..Len(list)} : list \in ImageListsOf(settings)}

\* A file of the project is referenced when a listed path, taken relative to
\* the base directory as generate_deck.resolve_settings_images takes it,
\* names that file
Referenced(f) ==
    \E p \in ListedPaths(project.settings) :
        NormPath(JoinPath(project.base_dir, p)) = NormPath(JoinPath(project.base_dir, f))

UnderCategoryFolder(f) ==
    Len(f.dir) >= 2 /\ f.dir[1] = "settings" /\ f.dir[2] \in ScanCategories

\* C32: scan_settings reports a file as unindexed exactly when it is an
\* image file present under a category folder and not referenced in
\* settings.json; an image whose path is listed in settings.json is never
\* reported in unindexed_files, for every base directory.
C32_UnindexedIffNotReferenced ==
    (project # Idle /\ project.pc = "scanned" /\ project.exists) =>
        \A f \in project.files :
            (NormPath(JoinPath(project.base_dir, f)) \in project.unindexed)
                <=> (/\ UnderCategoryFolder(f)
                     /\ LowerOf(f.ext) \in IMAGE_EXTS
                     /\ ~Referenced(f))

\* With the current directory as base the listed image is not reported and
\* the unlisted one is
C32_ScanFromCurrentDirectory ==
    /\ project # Idle
    /\ project.pc = "scanned"
    /\ project.base_dir = <<".">>
    /\ project.files = DiskFiles
    /\ Referenced(Path(HeroDir, "front", DotPng))
    /\ project.unindexed =
          {Path(HeroDir, "back", <<".", "P", "N", "G">>),
           Path(<<"settings", "art_style">>, "ref", <<".", "j", "p", "g">>),
           Path(<<"settings", "props">>, "sword", <<".", "w", "e", "b", "p">>)}

\* With another base directory the listed image is reported as unindexed
C32_ListedImageReported ==
    /\ project # Idle
    /\ project.pc = "scanned"
    /\ project.base_dir = <<"proj">>
    /\ Referenced(Path(HeroDir, "front", DotPng))
    /\ Path(<<"proj">> \o HeroDir, "front", DotPng) \in project.unindexed

====
